---- MODULE Spec2Model ----
(***************************************************************************)
(* A model of fasthttp.hpp (LoseYouNow/fasthttp): the percent-encoding     *)
(* codec and the query string, the URL parser, the cookie codec, the       *)
(* multipart form, the response model with its status classes, the request *)
(* and its builder with their authentication headers, and the client's     *)
(* execution path.                                                         *)
(*                                                                         *)
(* A std::string is a sequence of bytes, each byte its unsigned value      *)
(* 0..255.  The code's loop indices are 0-based; a sequence here is        *)
(* 1-based, so value[i] of the code is value[i + 1] below.                 *)
(* A std::map<std::string, std::string> is a function whose DOMAIN is the  *)
(* set of its keys; its iteration order is the keys' ascending order.      *)
(***************************************************************************)
EXTENDS Integers, Sequences, FiniteSets, TLC

VARIABLES
    \* UrlEncoder::encode / decode applied to one input
    value, encoded, decoded, codecPc,
    \* URL::parse applied to one input
    url, result, urlPc,
    \* an HttpResponse: headers_, body_, cookies_, and the setHeader calls
    \* made on it so far
    respHeaders, respBody, respCookies, respCalls,
    \* an HttpClient: the build it is compiled for, defaultTimeout_ and
    \* defaultHeaders_; the shortcut or function called last (invoked), the
    \* requests it passed to execute, the WinINet calls execute made for it
    \* and how the call ended
    platform, defaultTimeout_, defaultHeaders_, invoked, executeCalls, wire, outcome,
    \* a RequestBuilder: its members method_, url_, headers_, body_, timeout_
    \* and cookies_ as the fields of builder, the call made on it last, and
    \* the request its last build() returned; rbTrace keeps the URL the
    \* builder was made with and the addQueryParam calls made since
    builder, rbOp, built, rbTrace,
    \* a cookie text and a Cookie, one made from the other by Cookie::parse
    \* or Cookie::toString
    ckText, ckCookie, ckPc,
    \* a process that makes FormData instances: the reading of its steady
    \* clock, the instances made so far, the boundary each was made with,
    \* and the call made last with what it returned
    clock, forms, formBorn, formOut,
    \* an HttpResponse's statusCode_, and the status query made on it last
    \* with the code it saw and what it returned
    statusCode_, statusOut,
    \* UrlEncoder::buildQueryString applied to one mapping
    qsParams, qsOut, qsPc

codecVars == <<value, encoded, decoded, codecPc>>
urlVars == <<url, result, urlPc>>
respVars == <<respHeaders, respBody, respCookies, respCalls>>
clientVars ==
    <<platform, defaultTimeout_, defaultHeaders_, invoked, executeCalls, wire, outcome>>
builderVars == <<builder, rbOp, built, rbTrace>>
cookieVars == <<ckText, ckCookie, ckPc>>
formVars == <<clock, forms, formBorn, formOut>>
statusVars == <<statusCode_, statusOut>>
queryVars == <<qsParams, qsOut, qsPc>>
vars ==
    <<codecVars, urlVars, respVars, clientVars, builderVars,
      cookieVars, formVars, statusVars, queryVars>>

\* what each component's steps leave alone
codecOthers ==
    <<urlVars, respVars, clientVars, builderVars,
      cookieVars, formVars, statusVars, queryVars>>
urlOthers ==
    <<codecVars, respVars, clientVars, builderVars,
      cookieVars, formVars, statusVars, queryVars>>
respOthers ==
    <<codecVars, urlVars, clientVars, builderVars,
      cookieVars, formVars, statusVars, queryVars>>
clientOthers ==
    <<codecVars, urlVars, respVars, builderVars,
      cookieVars, formVars, statusVars, queryVars>>
builderOthers ==
    <<codecVars, urlVars, respVars, clientVars,
      cookieVars, formVars, statusVars, queryVars>>
cookieOthers ==
    <<codecVars, urlVars, respVars, clientVars,
      builderVars, formVars, statusVars, queryVars>>
formOthers ==
    <<codecVars, urlVars, respVars, clientVars,
      builderVars, cookieVars, statusVars, queryVars>>
statusOthers ==
    <<codecVars, urlVars, respVars, clientVars,
      builderVars, cookieVars, formVars, queryVars>>
queryOthers ==
    <<codecVars, urlVars, respVars, clientVars,
      builderVars, cookieVars, formVars, statusVars>>

\* a component that takes no part in a specification stays as it is here
CodecIdle ==
    /\ value = <<>>
    /\ encoded = <<>>
    /\ decoded = <<>>
    /\ codecPc = "idle"

UrlIdle ==
    /\ url = <<>>
    /\ result = [threw |-> FALSE]
    /\ urlPc = "idle"

RespIdle ==
    /\ respHeaders = <<>>
    /\ respBody = <<>>
    /\ respCookies = <<>>
    /\ respCalls = <<>>

\* no shortcut or function was called yet
NoInvocation == [fn |-> "none"]

ClientIdle ==
    /\ platform = "none"
    /\ defaultTimeout_ = 0
    /\ defaultHeaders_ = <<>>
    /\ invoked = NoInvocation
    /\ executeCalls = <<>>
    /\ wire = <<>>
    /\ outcome = "none"

\* build() was not called yet
NoRequest == [method |-> "none"]

BuilderIdle ==
    /\ builder = [method_ |-> "none"]
    /\ rbOp = [op |-> "none"]
    /\ built = NoRequest
    /\ rbTrace = [url |-> <<>>, params |-> <<>>]

CookieIdle ==
    /\ ckText = <<>>
    /\ ckCookie = [name |-> <<>>]
    /\ ckPc = "idle"

FormIdle ==
    /\ clock = 0
    /\ forms = <<>>
    /\ formBorn = <<>>
    /\ formOut = [op |-> "none"]

StatusIdle ==
    /\ statusCode_ = 0
    /\ statusOut = [op |-> "none"]

QueryIdle ==
    /\ qsParams = <<>>
    /\ qsOut = <<>>
    /\ qsPc = "idle"

(***************************************************************************)
(* Bounds of the model.                                                    *)
(***************************************************************************)
MaxLen == 3
MaxRestLen == 3
MaxCalls == 3

SeqsUpTo(S, n) == UNION {[1..k -> S] : k \in 0..n}

(***************************************************************************)
(* Character classes.                                                      *)
(***************************************************************************)
\* UrlEncoder::isAlphaNumeric: a-z, A-Z, 0-9
isAlphaNumeric(c) ==
    (c >= 97 /\ c <= 122) \/ (c >= 65 /\ c <= 90) \/ (c >= 48 /\ c <= 57)

\* the test of encode's loop: alphanumeric or one of - _ . ~
IsUnreserved(c) == isAlphaNumeric(c) \/ c = 45 \/ c = 95 \/ c = 46 \/ c = 126

\* std::isspace in the "C" locale, which the stream extractors and
\* std::stoi / std::stoull skip: space, \t \n \v \f \r
IsSpace(c) == c = 32 \/ (c >= 9 /\ c <= 13)

IsDigit(c) == c >= 48 /\ c <= 57

IsHexDigit(c) ==
    IsDigit(c) \/ (c >= 65 /\ c <= 70) \/ (c >= 97 /\ c <= 102)

HexDigitValue(c) ==
    IF IsDigit(c) THEN c - 48
    ELSE IF c >= 65 /\ c <= 70 THEN c - 55
    ELSE c - 87

(***************************************************************************)
(* UrlEncoder::encode                                                      *)
(***************************************************************************)
\* a slip that forgets std::uppercase
LowerHexChar(d) == IF d < 10 THEN 48 + d ELSE 87 + d

\* the digit characters of std::hex << std::uppercase
UpperHexChar(d) == IF d < 10 THEN 48 + d ELSE 55 + d

\* operator<< of an int in base 16: the digits of n, no leading zeros
RECURSIVE HexDigits(_)
HexDigits(n) ==
    IF n < 16 THEN <<UpperHexChar(n)>>
    ELSE HexDigits(n \div 16) \o <<UpperHexChar(n % 16)>>

\* std::setw(w) with fill character f: pad on the left up to width w
RECURSIVE PadLeft(_, _, _)
PadLeft(s, w, f) == IF Len(s) >= w THEN s ELSE PadLeft(<<f>> \o s, w, f)

\* a slip that forgets encoded.fill('0') / std::setw(2)
EscapeUnpadded(c) == <<37>> \o HexDigits(c)

\* '%' << std::setw(2) << int(static_cast<unsigned char>(c)), fill '0'
Escape(c) == <<37>> \o PadLeft(HexDigits(c), 2, 48)

RECURSIVE Encode(_)
Encode(s) ==
    IF s = <<>> THEN <<>>
    ELSE (IF IsUnreserved(Head(s)) THEN <<Head(s)>> ELSE Escape(Head(s)))
         \o Encode(Tail(s))

(***************************************************************************)
(* UrlEncoder::decode                                                      *)
(***************************************************************************)
RECURSIVE SkipSpace(_)
SkipSpace(s) ==
    IF s # <<>> /\ IsSpace(Head(s)) THEN SkipSpace(Tail(s)) ELSE s

RECURSIVE HexPrefixValue(_, _)
\* the value of the longest prefix of s made of hexadecimal digits
HexPrefixValue(s, acc) ==
    IF s # <<>> /\ IsHexDigit(Head(s))
    THEN HexPrefixValue(Tail(s), acc * 16 + HexDigitValue(Head(s)))
    ELSE acc

\* iss >> std::hex >> hexValue on the field `two`: leading white space is
\* skipped, a sign is accepted, a 0x / 0X prefix is accepted, then as many
\* hexadecimal digits as there are; the extraction fails only when no digit
\* was read.  ok is the stream's state, val the int stored.
HexExtract(two) ==
    LET s1 == SkipSpace(two)
        signed == s1 # <<>> /\ (Head(s1) = 43 \/ Head(s1) = 45)
        neg == s1 # <<>> /\ Head(s1) = 45
        s2 == IF signed THEN Tail(s1) ELSE s1
        prefixed == Len(s2) >= 2 /\ s2[1] = 48 /\ (s2[2] = 120 \/ s2[2] = 88)
        s3 == IF prefixed THEN Tail(Tail(s2)) ELSE s2
        any == s3 # <<>> /\ IsHexDigit(Head(s3))
        mag == HexPrefixValue(s3, 0)
    IN  [ok |-> any, val |-> IF any THEN (IF neg THEN -mag ELSE mag) ELSE 0]

\* static_cast<char>(hexValue): the low byte
ToChar(v) == v % 256

RECURSIVE DecodeFrom(_, _)
\* the body of decode's loop from index i (0-based) to the end
DecodeFrom(s, i) ==
    IF i >= Len(s) THEN <<>>
    ELSE IF s[i + 1] = 37 THEN
        IF i + 2 < Len(s) THEN
            LET r == HexExtract(SubSeq(s, i + 2, i + 3))
            IN  IF r.ok THEN <<ToChar(r.val)>> \o DecodeFrom(s, i + 3)
                ELSE <<s[i + 1]>> \o DecodeFrom(s, i + 1)
        ELSE <<s[i + 1]>> \o DecodeFrom(s, i + 1)
    ELSE IF s[i + 1] = 43 THEN <<32>> \o DecodeFrom(s, i + 1)
    ELSE <<s[i + 1]>> \o DecodeFrom(s, i + 1)

Decode(s) == DecodeFrom(s, 0)

(***************************************************************************)
(* std::string operations.  size_t is 64 bits wide; positions and counts   *)
(* are held modulo SizeMod, a power of two far above every length of the   *)
(* model, so a wrapped difference is, as in the code, larger than any      *)
(* string.                                                                 *)
(***************************************************************************)
SizeMod == 2 ^ 30

\* std::string::npos, the largest size_t
npos == SizeMod - 1

Min(a, b) == IF a <= b THEN a ELSE b

\* s.find(c): the 0-based position of the first c, or npos
FindChar(s, c) ==
    IF \E i \in 1..Len(s) : s[i] = c
    THEN (CHOOSE i \in 1..Len(s) : s[i] = c /\ \A j \in 1..(i - 1) : s[j] # c) - 1
    ELSE npos

IsAt(s, pat, i) ==
    /\ i + Len(pat) - 1 <= Len(s)
    /\ \A k \in 1..Len(pat) : s[i + k - 1] = pat[k]

\* s.find(pat): the 0-based position of the first occurrence of pat, or npos
FindStr(s, pat) ==
    IF \E i \in 1..Len(s) : IsAt(s, pat, i)
    THEN (CHOOSE i \in 1..Len(s) :
              IsAt(s, pat, i) /\ \A j \in 1..(i - 1) : ~IsAt(s, pat, j)) - 1
    ELSE npos

\* s.substr(pos, n) for pos <= s.size(): at most n characters from pos
Substr(s, pos, n) == SubSeq(s, pos + 1, pos + Min(n, Len(s) - pos))

\* s.substr(pos): the default count is npos
SubstrFrom(s, pos) == Substr(s, pos, npos)

(***************************************************************************)
(* std::stoi                                                               *)
(***************************************************************************)
IntMax == 2147483647

RECURSIVE DecPrefix(_, _, _)
\* the digits at the front of s, accumulated as strtol does; acc is minus
\* the magnitude read so far; over tells that the magnitude left the range
\* of int (IntMax + 1 is in range for a negative number only)
DecPrefix(s, acc, over) ==
    IF s # <<>> /\ IsDigit(Head(s))
    THEN LET d == Head(s) - 48
             fits == ~over /\ (acc > -(IntMax \div 10)
                               \/ (acc = -(IntMax \div 10) /\ d <= 8))
         IN  DecPrefix(Tail(s), IF fits THEN acc * 10 - d ELSE acc, ~fits)
    ELSE [acc |-> acc, over |-> over]

\* std::stoi(s): white space is skipped, a sign is accepted, then the leading
\* decimal digits are converted and what follows them is ignored.  threw is
\* TRUE when there is no digit (std::invalid_argument) or the number is not
\* an int (std::out_of_range).
Stoi(s) ==
    LET s1 == SkipSpace(s)
        signed == s1 # <<>> /\ (Head(s1) = 43 \/ Head(s1) = 45)
        neg == s1 # <<>> /\ Head(s1) = 45
        s2 == IF signed THEN Tail(s1) ELSE s1
        any == s2 # <<>> /\ IsDigit(Head(s2))
        r == DecPrefix(s2, 0, FALSE)
    IN  IF ~any THEN [threw |-> TRUE, what |-> "invalid_argument", val |-> 0]
        ELSE IF r.over \/ (~neg /\ r.acc < -IntMax)
            THEN [threw |-> TRUE, what |-> "out_of_range", val |-> 0]
        ELSE [threw |-> FALSE, what |-> "", val |-> IF neg THEN r.acc ELSE -r.acc]

(***************************************************************************)
(* URL::parse                                                              *)
(***************************************************************************)
S_SchemeSep == <<58, 47, 47>>                       \* "://"
S_https == <<104, 116, 116, 112, 115>>              \* "https"
S_Slash == <<47>>                                   \* "/"

\* URL(): port(80), the strings empty
URLDefault ==
    [scheme |-> <<>>, host |-> <<>>, port |-> 80,
     path |-> <<>>, query |-> <<>>, fragment |-> <<>>]

\* a slip that takes the query to the end of the text also when a '#'
\* follows the '?'
ParsePathQueryToEnd(temp) ==
    LET queryPos == FindChar(temp, 63)
        fragmentPos == FindChar(temp, 35)
    IN  IF queryPos # npos THEN
            [path |-> Substr(temp, 0, queryPos),
             query |-> SubstrFrom(temp, queryPos + 1),
             fragment |-> IF fragmentPos # npos
                          THEN SubstrFrom(temp, fragmentPos + 1) ELSE <<>>]
        ELSE IF fragmentPos # npos THEN
            [path |-> Substr(temp, 0, fragmentPos),
             query |-> <<>>,
             fragment |-> SubstrFrom(temp, fragmentPos + 1)]
        ELSE [path |-> temp, query |-> <<>>, fragment |-> <<>>]

\* a slip that counts fragmentPos - queryPos - 1 as a signed number and
\* takes no character when it is negative
ParsePathSignedCount(temp) ==
    LET queryPos == FindChar(temp, 63)
        fragmentPos == FindChar(temp, 35)
    IN  IF queryPos # npos THEN
            IF fragmentPos # npos THEN
                [path |-> Substr(temp, 0, queryPos),
                 query |-> IF fragmentPos > queryPos
                           THEN Substr(temp, queryPos + 1, fragmentPos - queryPos - 1)
                           ELSE <<>>,
                 fragment |-> SubstrFrom(temp, fragmentPos + 1)]
            ELSE
                [path |-> Substr(temp, 0, queryPos),
                 query |-> SubstrFrom(temp, queryPos + 1),
                 fragment |-> <<>>]
        ELSE IF fragmentPos # npos THEN
            [path |-> Substr(temp, 0, fragmentPos),
             query |-> <<>>,
             fragment |-> SubstrFrom(temp, fragmentPos + 1)]
        ELSE [path |-> temp, query |-> <<>>, fragment |-> <<>>]

\* the path, query and fragment of temp = temp.substr(pathPos)
ParsePath(temp) ==
    LET queryPos == FindChar(temp, 63)
        fragmentPos == FindChar(temp, 35)
    IN  IF queryPos # npos THEN
            IF fragmentPos # npos THEN
                [path |-> Substr(temp, 0, queryPos),
                 query |-> Substr(temp, queryPos + 1,
                                  (fragmentPos - queryPos - 1) % SizeMod),
                 fragment |-> SubstrFrom(temp, fragmentPos + 1)]
            ELSE
                [path |-> Substr(temp, 0, queryPos),
                 query |-> SubstrFrom(temp, queryPos + 1),
                 fragment |-> <<>>]
        ELSE IF fragmentPos # npos THEN
            [path |-> Substr(temp, 0, fragmentPos),
             query |-> <<>>,
             fragment |-> SubstrFrom(temp, fragmentPos + 1)]
        ELSE [path |-> temp, query |-> <<>>, fragment |-> <<>>]

\* a slip that takes 443 for every scheme
DefaultPortAnyScheme(hasScheme, scheme) == IF hasScheme THEN 443 ELSE 80

\* result.port before the authority is read: 80 of URL(), 443 once the
\* scheme is "https"
DefaultPort(hasScheme, scheme) == IF hasScheme /\ scheme = S_https THEN 443 ELSE 80

\* a slip that leaves the path empty when no '/' was found
NoPathEmpty == [path |-> <<>>, query |-> <<>>, fragment |-> <<>>]

\* the path, query and fragment when no '/' was found
NoPath == [path |-> S_Slash, query |-> <<>>, fragment |-> <<>>]

\* URL::parse(u).  threw tells that std::stoi raised and no URL is returned;
\* otherwise the fields are those of the URL returned.
UrlParse(u) ==
    LET schemePos == FindStr(u, S_SchemeSep)
        hasScheme == schemePos # npos
        scheme == IF hasScheme THEN Substr(u, 0, schemePos) ELSE <<>>
        temp == IF hasScheme THEN SubstrFrom(u, schemePos + 3) ELSE u
        port0 == DefaultPort(hasScheme, scheme)
        pathPos == FindChar(temp, 47)
        hostPort == IF pathPos # npos THEN Substr(temp, 0, pathPos) ELSE temp
        portPos == FindChar(hostPort, 58)
        host == IF portPos # npos THEN Substr(hostPort, 0, portPos) ELSE hostPort
        conv == Stoi(SubstrFrom(hostPort, portPos + 1))
        rest == IF pathPos # npos
                THEN ParsePath(SubstrFrom(temp, pathPos))
                ELSE NoPath
    IN  IF portPos # npos /\ conv.threw
        THEN [threw |-> TRUE, what |-> conv.what]
        ELSE [threw |-> FALSE, what |-> "",
              scheme |-> scheme, host |-> host,
              port |-> IF portPos # npos THEN conv.val ELSE port0,
              path |-> rest.path, query |-> rest.query,
              fragment |-> rest.fragment]

(***************************************************************************)
(* The codec applied to one input string.                                  *)
(***************************************************************************)
\* bytes the inputs are made of: NUL, space, '%', '+', '-', '4', 'A', 'G'
\* and 0xFF
CodecBytes == {0, 32, 37, 43, 45, 52, 65, 71, 255}

\* the inputs: the strings over CodecBytes, and every string of one byte
CodecInputs == SeqsUpTo(CodecBytes, MaxLen) \cup {<<b>> : b \in 0..255}

CodecInit ==
    /\ value \in CodecInputs
    /\ encoded = <<>>
    /\ decoded = <<>>
    /\ codecPc = "init"
    /\ UrlIdle /\ RespIdle /\ ClientIdle /\ BuilderIdle /\ CookieIdle /\ FormIdle
    /\ StatusIdle /\ QueryIdle

\* encoded = UrlEncoder::encode(value)
EncodeStep ==
    /\ codecPc = "init"
    /\ encoded' = Encode(value)
    /\ codecPc' = "encoded"
    /\ UNCHANGED <<value, decoded, codecOthers>>

\* decoded = UrlEncoder::decode(value)
DecodeStep ==
    /\ codecPc = "init"
    /\ decoded' = Decode(value)
    /\ codecPc' = "decoded"
    /\ UNCHANGED <<value, encoded, codecOthers>>

\* decoded = UrlEncoder::decode(encoded), after encoded = encode(value)
DecodeEncodedStep ==
    /\ codecPc = "encoded"
    /\ decoded' = Decode(encoded)
    /\ codecPc' = "roundtrip"
    /\ UNCHANGED <<value, encoded, codecOthers>>

CodecNext == EncodeStep \/ DecodeStep \/ DecodeEncodedStep

SpecCodec == CodecInit /\ [][CodecNext]_vars

(***************************************************************************)
(* C1: for every byte sequence s, also with bytes >= 0x80, NUL, '%', '+'   *)
(* and space, decode(encode(s)) = s.                                       *)
(***************************************************************************)
C1_RoundTrip == codecPc = "roundtrip" => decoded = value

\* a round trip of an input holding '%', a byte >= 0x80 and NUL
C1_Witness ==
    /\ codecPc = "roundtrip"
    /\ \E i, j, k \in 1..Len(value) :
          value[i] = 37 /\ value[j] >= 128 /\ value[k] = 0
    /\ decoded = value

(***************************************************************************)
(* C2: decode copies every malformed escape through unchanged: the '%' and *)
(* the characters after it appear in the output as they are, no byte is    *)
(* made from a partial hex match and no input character is dropped.        *)
(* LenientDecode is the decoding the claim describes.                      *)
(***************************************************************************)
RECURSIVE LenientDecode(_)
LenientDecode(s) ==
    IF s = <<>> THEN <<>>
    ELSE IF Head(s) = 37 /\ Len(s) >= 3 /\ IsHexDigit(s[2]) /\ IsHexDigit(s[3])
        THEN <<HexDigitValue(s[2]) * 16 + HexDigitValue(s[3])>>
             \o LenientDecode(SubSeq(s, 4, Len(s)))
    ELSE IF Head(s) = 43 THEN <<32>> \o LenientDecode(Tail(s))
    ELSE <<Head(s)>> \o LenientDecode(Tail(s))

C2_MalformedCopied == codecPc = "decoded" => decoded = LenientDecode(value)

(***************************************************************************)
(* The parser applied to one input string: a scheme part, an authority and *)
(* the rest, each from a small set.                                        *)
(***************************************************************************)
\* "", "http://", "https://", "HTTPS://"
UrlSchemes ==
    {<<>>, <<104, 116, 116, 112, 58, 47, 47>>,
     <<104, 116, 116, 112, 115, 58, 47, 47>>,
     <<72, 84, 84, 80, 83, 58, 47, 47>>}

\* "h", "h:8", "h:", "h:x", "u:p@h", "h:-1", "h:8x", "h:99999999999"
UrlAuthorities ==
    {<<104>>, <<104, 58, 56>>, <<104, 58>>, <<104, 58, 120>>,
     <<117, 58, 112, 64, 104>>, <<104, 58, 45, 49>>, <<104, 58, 56, 120>>,
     <<104, 58, 57, 57, 57, 57, 57, 57, 57, 57, 57, 57, 57>>}

\* "/p?q#f", "/p#f?q", "/#?#", "/p?a?b#c#d"
UrlLongRests == {<<47, 112, 63, 113, 35, 102>>, <<47, 112, 35, 102, 63, 113>>, <<47, 35, 63, 35>>, <<47, 112, 63, 97, 63, 98, 35, 99, 35, 100>>}

\* every string of up to MaxRestLen of '/', '?', '#', 'q', and the longer ones
UrlRests == SeqsUpTo({47, 63, 35, 113}, MaxRestLen) \cup UrlLongRests

UrlInit ==
    /\ \E s \in UrlSchemes, a \in UrlAuthorities, r \in UrlRests :
          url = s \o a \o r
    /\ result = [threw |-> FALSE]
    /\ urlPc = "init"
    /\ CodecIdle /\ RespIdle /\ ClientIdle /\ BuilderIdle /\ CookieIdle /\ FormIdle
    /\ StatusIdle /\ QueryIdle

\* result = URL::parse(url)
ParseStep ==
    /\ urlPc = "init"
    /\ result' = UrlParse(url)
    /\ urlPc' = "parsed"
    /\ UNCHANGED <<url, urlOthers>>

UrlNext == ParseStep

SpecUrl == UrlInit /\ [][UrlNext]_vars

(***************************************************************************)
(* C3: URL::parse is total: for every input, also one whose authority has  *)
(* an empty, non-numeric or out-of-range text after ':' or holds           *)
(* 'user:pass@', it returns a URL and raises nothing.                      *)
(***************************************************************************)
C3_ParseTotal == urlPc = "parsed" => ~result.threw

(***************************************************************************)
(* toLower, trim and std::getline                                          *)
(***************************************************************************)
\* ::tolower in the "C" locale
ToLowerChar(c) == IF c >= 65 /\ c <= 90 THEN c + 32 ELSE c

\* toLower(str)
ToLower(s) == [i \in 1..Len(s) |-> ToLowerChar(s[i])]

\* one of " \t\r\n", the characters trim removes
IsTrimmed(c) == c = 32 \/ c = 9 \/ c = 13 \/ c = 10

\* trim(str): from the first to the last character outside " \t\r\n"
Trim(s) ==
    IF \A i \in 1..Len(s) : IsTrimmed(s[i]) THEN <<>>
    ELSE LET start == CHOOSE i \in 1..Len(s) :
                          ~IsTrimmed(s[i]) /\ \A j \in 1..(i - 1) : IsTrimmed(s[j])
             end == CHOOSE i \in 1..Len(s) :
                        ~IsTrimmed(s[i]) /\ \A j \in (i + 1)..Len(s) : IsTrimmed(s[j])
         IN  SubSeq(s, start, end)

RECURSIVE Getlines(_, _)
\* the items successive std::getline(iss, item, delim) calls yield until one
\* fails: a call that finds the stream at its end extracts nothing and fails
Getlines(s, delim) ==
    IF s = <<>> THEN <<>>
    ELSE LET p == FindChar(s, delim)
         IN  IF p = npos THEN <<s>>
             ELSE <<Substr(s, 0, p)>> \o Getlines(SubstrFrom(s, p + 1), delim)

(***************************************************************************)
(* Cookie::parse                                                           *)
(***************************************************************************)
S_Domain == <<68, 111, 109, 97, 105, 110, 61>>
S_Path == <<80, 97, 116, 104, 61>>
S_Secure == <<83, 101, 99, 117, 114, 101>>
S_HttpOnly == <<72, 116, 116, 112, 79, 110, 108, 121>>
S_SameSite == <<83, 97, 109, 101, 83, 105, 116, 101, 61>>

\* Cookie(): secure(false), httpOnly(false), the strings empty
CookieDefault ==
    [name |-> <<>>, value |-> <<>>, domain |-> <<>>, path |-> <<>>,
     secure |-> FALSE, httpOnly |-> FALSE, sameSite |-> <<>>]

\* a slip that tests item.find(prefix) != npos
StartsWithAnywhere(item, prefix) == FindStr(item, prefix) # npos

\* item.find(prefix) == 0
StartsWith(item, prefix) == IsAt(item, prefix, 1)

\* the first getline: name=value
ParseNameValue(cookie, item) ==
    LET equalPos == FindChar(item, 61)
    IN  IF equalPos # npos
        THEN [cookie EXCEPT !.name = Trim(Substr(item, 0, equalPos)),
                            !.value = Trim(SubstrFrom(item, equalPos + 1))]
        ELSE cookie

\* one turn of the attribute loop, item being already trimmed
ParseAttribute(cookie, item) ==
    IF StartsWith(item, S_Domain) THEN [cookie EXCEPT !.domain = SubstrFrom(item, 7)]
    ELSE IF StartsWith(item, S_Path) THEN [cookie EXCEPT !.path = SubstrFrom(item, 5)]
    ELSE IF item = S_Secure THEN [cookie EXCEPT !.secure = TRUE]
    ELSE IF item = S_HttpOnly THEN [cookie EXCEPT !.httpOnly = TRUE]
    ELSE IF StartsWith(item, S_SameSite)
        THEN [cookie EXCEPT !.sameSite = SubstrFrom(item, 9)]
    ELSE cookie

RECURSIVE ParseAttributes(_, _)
ParseAttributes(cookie, items) ==
    IF items = <<>> THEN cookie
    ELSE ParseAttributes(ParseAttribute(cookie, Trim(Head(items))), Tail(items))

\* Cookie::parse(cookieString)
CookieParse(cookieString) ==
    LET items == Getlines(cookieString, 59)
    IN  IF items = <<>> THEN CookieDefault
        ELSE ParseAttributes(ParseNameValue(CookieDefault, Head(items)), Tail(items))

(***************************************************************************)
(* std::stoull.  The result is an unsigned 64-bit number; it is held by    *)
(* its representative modulo 2^64 nearest to zero, so that -d stands for   *)
(* 2^64 - d, the value strtoull gives for the text "-d".                   *)
(***************************************************************************)
\* the digits of ULLONG_MAX, 18446744073709551615
ULLongMaxDigits == <<49, 56, 52, 52, 54, 55, 52, 52, 48, 55, 51, 55, 48, 57, 53, 53, 49, 54, 49, 53>>

RECURSIVE DigitRun(_)
\* the decimal digits at the front of s
DigitRun(s) ==
    IF s # <<>> /\ IsDigit(Head(s)) THEN <<Head(s)>> \o DigitRun(Tail(s)) ELSE <<>>

RECURSIVE StripZeros(_)
StripZeros(s) == IF s # <<>> /\ Head(s) = 48 THEN StripZeros(Tail(s)) ELSE s

RECURSIVE DecValue(_, _)
DecValue(s, acc) ==
    IF s = <<>> THEN acc ELSE DecValue(Tail(s), acc * 10 + (Head(s) - 48))

\* a < b for two digit strings of the same length
DigitsLess(a, b) ==
    \E i \in 1..Len(a) : a[i] < b[i] /\ \A j \in 1..(i - 1) : a[j] = b[j]

\* the digit string d (no leading zeros) is above ULLONG_MAX
AboveULLongMax(d) ==
    \/ Len(d) > Len(ULLongMaxDigits)
    \/ Len(d) = Len(ULLongMaxDigits) /\ DigitsLess(ULLongMaxDigits, d)

\* std::stoull(s): white space is skipped, a sign is accepted, the leading
\* decimal digits are converted and what follows is ignored; threw is TRUE
\* when there is no digit (std::invalid_argument) or the number is above
\* ULLONG_MAX (std::out_of_range)
Stoull(s) ==
    LET s1 == SkipSpace(s)
        signed == s1 # <<>> /\ (Head(s1) = 43 \/ Head(s1) = 45)
        neg == s1 # <<>> /\ Head(s1) = 45
        s2 == IF signed THEN Tail(s1) ELSE s1
        digits == StripZeros(DigitRun(s2))
    IN  IF DigitRun(s2) = <<>>
        THEN [threw |-> TRUE, what |-> "invalid_argument", val |-> 0]
        ELSE IF AboveULLongMax(digits)
            THEN [threw |-> TRUE, what |-> "out_of_range", val |-> 0]
        ELSE [threw |-> FALSE, what |-> "",
              val |-> IF neg THEN -DecValue(digits, 0) ELSE DecValue(digits, 0)]

(***************************************************************************)
(* HttpResponse                                                            *)
(***************************************************************************)
S_set_cookie == <<115, 101, 116, 45, 99, 111, 111, 107, 105, 101>>
S_content_length == <<99, 111, 110, 116, 101, 110, 116, 45, 108, 101, 110, 103, 116, 104>>

\* m[k] = v of a std::map
MapPut(m, k, v) == [x \in (DOMAIN m) \cup {k} |-> IF x = k THEN v ELSE m[x]]

\* a slip that stores the key as given
RespSetHeaderAsGiven(key, val) ==
    /\ respHeaders' = MapPut(respHeaders, key, val)
    /\ respCookies' = IF ToLower(key) = S_set_cookie
                      THEN Append(respCookies, CookieParse(val))
                      ELSE respCookies
    /\ respCalls' = Append(respCalls, <<key, val>>)
    /\ UNCHANGED <<respBody, respOthers>>

\* a slip that keeps only the cookie of the last Set-Cookie header
RespSetHeaderOneCookie(key, val) ==
    /\ respHeaders' = MapPut(respHeaders, ToLower(key), val)
    /\ respCookies' = IF ToLower(key) = S_set_cookie
                      THEN <<CookieParse(val)>>
                      ELSE respCookies
    /\ respCalls' = Append(respCalls, <<key, val>>)
    /\ UNCHANGED <<respBody, respOthers>>

\* HttpResponse::setHeader(key, value)
RespSetHeader(key, val) ==
    /\ respHeaders' = MapPut(respHeaders, ToLower(key), val)
    /\ respCookies' = IF ToLower(key) = S_set_cookie
                      THEN Append(respCookies, CookieParse(val))
                      ELSE respCookies
    /\ respCalls' = Append(respCalls, <<key, val>>)
    /\ UNCHANGED <<respBody, respOthers>>

\* HttpResponse::setBody(body)
RespSetBody(b) ==
    /\ respBody' = b
    /\ UNCHANGED <<respHeaders, respCookies, respCalls, respOthers>>

\* HttpResponse::getHeader(key)
RespGetHeader(key) ==
    IF ToLower(key) \in DOMAIN respHeaders THEN respHeaders[ToLower(key)] ELSE <<>>

\* HttpResponse::hasHeader(key)
RespHasHeader(key) == ToLower(key) \in DOMAIN respHeaders

\* a variant that falls back to the body length when std::stoull throws
RespGetContentLengthFallback ==
    LET lengthStr == RespGetHeader(S_content_length)
    IN  IF lengthStr # <<>> /\ ~Stoull(lengthStr).threw
        THEN Stoull(lengthStr).val
        ELSE Len(respBody)

\* HttpResponse::getContentLength()
RespGetContentLength ==
    LET lengthStr == RespGetHeader(S_content_length)
    IN  IF lengthStr # <<>>
        THEN (IF Stoull(lengthStr).threw THEN 0 ELSE Stoull(lengthStr).val)
        ELSE Len(respBody)

(***************************************************************************)
(* A response on which setHeader and setBody are called.                   *)
(***************************************************************************)
\* the (key, value) pairs setHeader is called with
RespHeaderInputs ==
    {<<<<83, 101, 116, 45, 67, 111, 111, 107, 105, 101>>, <<97, 61, 49>>>>,
     <<<<83, 69, 84, 45, 67, 79, 79, 75, 73, 69>>, <<98, 61, 50, 59, 32, 83, 101, 99, 117, 114, 101>>>>,
     <<<<115, 101, 116, 45, 99, 111, 111, 107, 105, 101>>, <<>>>>,
     <<<<67, 111, 110, 116, 101, 110, 116, 45, 76, 101, 110, 103, 116, 104>>, <<53>>>>,
     <<<<99, 111, 110, 116, 101, 110, 116, 45, 108, 101, 110, 103, 116, 104>>, <<97, 98, 99>>>>,
     <<<<67, 79, 78, 84, 69, 78, 84, 45, 76, 69, 78, 71, 84, 72>>, <<>>>>,
     <<<<67, 111, 110, 116, 101, 110, 116, 45, 76, 101, 110, 103, 116, 104>>, <<45, 49>>>>,
     <<<<99, 111, 110, 116, 101, 110, 116, 45, 108, 101, 110, 103, 116, 104>>, <<32, 55, 120>>>>,
     <<<<67, 111, 110, 116, 101, 110, 116, 45, 76, 101, 110, 103, 116, 104>>, <<57, 57, 57, 57, 57, 57, 57, 57, 57, 57, 57, 57, 57, 57, 57, 57, 57, 57, 57, 57>>>>,
     <<<<88>>, <<53>>>>,
     <<<<120>>, <<97, 61, 49>>>>}

\* "", "xy"
RespBodies == {<<>>, <<120, 121>>}

RespInit ==
    /\ respHeaders = <<>>
    /\ respBody = <<>>
    /\ respCookies = <<>>
    /\ respCalls = <<>>
    /\ CodecIdle /\ UrlIdle /\ ClientIdle /\ BuilderIdle /\ CookieIdle /\ FormIdle
    /\ StatusIdle /\ QueryIdle

RespSetHeaderStep ==
    /\ Len(respCalls) < MaxCalls
    /\ \E kv \in RespHeaderInputs : RespSetHeader(kv[1], kv[2])

RespSetBodyStep == \E b \in RespBodies : RespSetBody(b)

RespNext == RespSetHeaderStep \/ RespSetBodyStep

SpecResponse == RespInit /\ [][RespNext]_vars

(***************************************************************************)
(* C4: getContentLength returns the content-length header parsed as an     *)
(* unsigned integer when it parses, and the actual body length whenever    *)
(* the header is absent or its value cannot be parsed.                     *)
(***************************************************************************)
C4_FallbackToBody ==
    LET h == RespGetHeader(S_content_length)
    IN  RespGetContentLength =
            IF RespHasHeader(S_content_length) /\ ~Stoull(h).threw
            THEN Stoull(h).val
            ELSE Len(respBody)

\* the value of a string of decimal digits
RECURSIVE DecimalOf(_)
DecimalOf(s) ==
    IF s = <<>> THEN 0 ELSE DecimalOf(SubSeq(s, 1, Len(s) - 1)) * 10 + (s[Len(s)] - 48)

(***************************************************************************)
(* C4 as amended: getContentLength returns the body length when the        *)
(* content-length header is absent or empty, 0 when its non-empty value    *)
(* cannot be parsed as an unsigned integer (no leading number, or a number *)
(* out of range), and the parsed number otherwise; a value made of decimal *)
(* digits only yields the number it writes.                                *)
(***************************************************************************)
C4_ZeroWhenUnparsable ==
    LET h == RespGetHeader(S_content_length)
    IN  /\ (~RespHasHeader(S_content_length) \/ h = <<>>)
               => RespGetContentLength = Len(respBody)
        /\ (h # <<>> /\ Stoull(h).threw) => RespGetContentLength = 0
        /\ (h # <<>> /\ ~Stoull(h).threw) => RespGetContentLength = Stoull(h).val
        /\ (h # <<>> /\ Len(h) <= 9 /\ \A i \in 1..Len(h) : IsDigit(h[i]))
               => RespGetContentLength = DecimalOf(h)

\* a response with a body of two bytes and an unparsable content-length
C4_Witness ==
    /\ RespHasHeader(S_content_length)
    /\ RespGetHeader(S_content_length) = <<97, 98, 99>>
    /\ Len(respBody) = 2
    /\ RespGetContentLength = 0

(***************************************************************************)
(* C5: the cookie list holds exactly one cookie per setHeader call whose   *)
(* key is 'set-cookie' whatever its letter case, in call order, each the   *)
(* Cookie::parse of that call's value; a call with another key leaves the  *)
(* list as it is and no earlier cookie is removed or replaced.             *)
(***************************************************************************)
\* a and b are the same text but for the case of their letters
SameIgnoringCase(a, b) ==
    /\ Len(a) = Len(b)
    /\ \A i \in 1..Len(a) :
          a[i] = b[i] \/ (a[i] >= 65 /\ a[i] <= 90 /\ b[i] = a[i] + 32)
                      \/ (b[i] >= 65 /\ b[i] <= 90 /\ a[i] = b[i] + 32)

RECURSIVE CookiesOfCalls(_)
CookiesOfCalls(calls) ==
    IF calls = <<>> THEN <<>>
    ELSE LET front == CookiesOfCalls(SubSeq(calls, 1, Len(calls) - 1))
             last == calls[Len(calls)]
         IN  IF SameIgnoringCase(last[1], S_set_cookie)
             THEN Append(front, CookieParse(last[2]))
             ELSE front

C5_CookiePerSetCookie == respCookies = CookiesOfCalls(respCalls)

\* Set-Cookie: a=1, then another header, then SET-COOKIE: b=2; Secure
C5_Witness ==
    /\ Len(respCalls) = 3
    /\ respCalls[1] = <<<<83, 101, 116, 45, 67, 111, 111, 107, 105, 101>>, <<97, 61, 49>>>>
    /\ respCalls[2][1] = <<88>>
    /\ respCalls[3] = <<<<83, 69, 84, 45, 67, 79, 79, 75, 73, 69>>, <<98, 61, 50, 59, 32, 83, 101, 99, 117, 114, 101>>>>
    /\ Len(respCookies) = 2
    /\ respCookies[1].name = <<97>> /\ respCookies[1].value = <<49>>
    /\ respCookies[2].name = <<98>> /\ respCookies[2].secure

(***************************************************************************)
(* C6: every key of the header mapping is lowercase; getHeader(k) is the   *)
(* value of the most recent setHeader call whose key equals k whatever the *)
(* letter case, the empty string if there is none; hasHeader(k) is true    *)
(* exactly when there was such a call.                                     *)
(***************************************************************************)
\* the keys getHeader and hasHeader are asked for
RespQueryKeys ==
    {kv[1] : kv \in RespHeaderInputs} \cup {<<83, 101, 116, 45, 99, 111, 111, 107, 105, 101>>, <<99, 111, 110, 116, 101, 110, 116, 45, 76, 69, 78, 71, 84, 72>>, <<89>>}

\* the calls made with key k, whatever the letter case
CallsFor(k) == {i \in 1..Len(respCalls) : SameIgnoringCase(respCalls[i][1], k)}

LastCallFor(k) == CHOOSE i \in CallsFor(k) : \A j \in CallsFor(k) : j <= i

C6_LowercaseLastWins ==
    /\ \A k \in DOMAIN respHeaders : \A i \in 1..Len(k) : ~(k[i] >= 65 /\ k[i] <= 90)
    /\ \A k \in RespQueryKeys :
          /\ RespHasHeader(k) <=> CallsFor(k) # {}
          /\ RespGetHeader(k) =
                 IF CallsFor(k) = {} THEN <<>> ELSE respCalls[LastCallFor(k)][2]

\* Content-Length: 5 overwritten by content-length: abc, read as CONTENT-LENGTH
C6_Witness ==
    /\ Len(respCalls) >= 2
    /\ respCalls[1] = <<<<67, 111, 110, 116, 101, 110, 116, 45, 76, 101, 110, 103, 116, 104>>, <<53>>>>
    /\ respCalls[2] = <<<<99, 111, 110, 116, 101, 110, 116, 45, 108, 101, 110, 103, 116, 104>>, <<97, 98, 99>>>>
    /\ RespGetHeader(<<67, 79, 78, 84, 69, 78, 84, 45, 76, 69, 78, 71, 84, 72>>) = <<97, 98, 99>>
    /\ ~RespHasHeader(<<89>>)

(***************************************************************************)
(* std::map iteration order, std::to_string                                *)
(***************************************************************************)
\* a < b of two std::string: byte by byte, a proper prefix first
LexLess(a, b) ==
    \/ Len(a) < Len(b) /\ \A i \in 1..Len(a) : a[i] = b[i]
    \/ \E i \in 1..Min(Len(a), Len(b)) :
          a[i] < b[i] /\ \A j \in 1..(i - 1) : a[j] = b[j]

RECURSIVE SortedKeys(_)
\* the keys in S in the order a std::map iterates over them
SortedKeys(S) ==
    IF S = {} THEN <<>>
    ELSE LET first == CHOOSE k \in S : \A other \in S \ {k} : LexLess(k, other)
         IN  <<first>> \o SortedKeys(S \ {first})

RECURSIVE StdToString(_)
\* std::to_string(n) for n >= 0
StdToString(n) ==
    IF n < 10 THEN <<48 + n>> ELSE StdToString(n \div 10) \o <<48 + (n % 10)>>

(***************************************************************************)
(* UrlEncoder::buildQueryString                                            *)
(***************************************************************************)
RECURSIVE QueryPairsAmpAlways(_, _, _)
\* a slip that writes '&' before the first pair too
QueryPairsAmpAlways(params, keys, first) ==
    IF keys = <<>> THEN <<>>
    ELSE <<38>> \o Encode(Head(keys)) \o <<61>> \o Encode(params[Head(keys)])
         \o QueryPairsAmpAlways(params, Tail(keys), FALSE)

RECURSIVE QueryPairs(_, _, _)
\* the loop over params from the key at position i, first telling whether
\* no pair was written yet
QueryPairs(params, keys, first) ==
    IF keys = <<>> THEN <<>>
    ELSE (IF first THEN <<>> ELSE <<38>>)
         \o Encode(Head(keys)) \o <<61>> \o Encode(params[Head(keys)])
         \o QueryPairs(params, Tail(keys), FALSE)

BuildQueryString(params) == QueryPairs(params, SortedKeys(DOMAIN params), TRUE)

(***************************************************************************)
(* FormData                                                                *)
(***************************************************************************)
S_BoundaryPrefix == <<45, 45, 45, 45, 70, 97, 115, 116, 72, 84, 84, 80, 66, 111, 117, 110, 100, 97, 114, 121>>
S_MultipartPrefix == <<109, 117, 108, 116, 105, 112, 97, 114, 116, 47, 102, 111, 114, 109, 45, 100, 97, 116, 97, 59, 32, 98, 111, 117, 110, 100, 97, 114, 121, 61>>
S_Dashes == <<45, 45>>
S_CRLF == <<13, 10>>
S_Disposition == <<67, 111, 110, 116, 101, 110, 116, 45, 68, 105, 115, 112, 111, 115, 105, 116, 105, 111, 110, 58, 32, 102, 111, 114, 109, 45, 100, 97, 116, 97, 59, 32, 110, 97, 109, 101, 61, 34>>

\* FormData(), the steady clock reading count at construction
FormDataNew(count) ==
    [fields |-> <<>>, boundary |-> S_BoundaryPrefix \o StdToString(count)]

\* a slip that keeps the first value given for a name
FormAddFieldKeepFirst(fd, name, val) ==
    IF name \in DOMAIN fd.fields THEN fd
    ELSE [fd EXCEPT !.fields = MapPut(@, name, val)]

\* FormData::addField
FormAddField(fd, name, val) == [fd EXCEPT !.fields = MapPut(@, name, val)]

\* FormData::getBoundary
FormGetBoundary(fd) == fd.boundary

\* a slip that names the boundary without its leading dashes
FormGetContentTypeBare(fd) ==
    S_MultipartPrefix \o SubSeq(fd.boundary, 5, Len(fd.boundary))

\* FormData::getContentType
FormGetContentType(fd) == S_MultipartPrefix \o fd.boundary

RECURSIVE FormParts(_, _)
FormParts(fd, keys) ==
    IF keys = <<>> THEN <<>>
    ELSE S_Dashes \o fd.boundary \o S_CRLF
         \o S_Disposition \o Head(keys) \o <<34>> \o S_CRLF \o S_CRLF
         \o fd.fields[Head(keys)] \o S_CRLF
         \o FormParts(fd, Tail(keys))

\* FormData::encode
FormEncode(fd) ==
    FormParts(fd, SortedKeys(DOMAIN fd.fields))
    \o S_Dashes \o fd.boundary \o S_Dashes \o S_CRLF

(***************************************************************************)
(* HttpRequest                                                             *)
(***************************************************************************)
S_ContentType == <<67, 111, 110, 116, 101, 110, 116, 45, 84, 121, 112, 101>>
S_ApplicationJson == <<97, 112, 112, 108, 105, 99, 97, 116, 105, 111, 110, 47, 106, 115, 111, 110>>
S_FormUrlencoded == <<97, 112, 112, 108, 105, 99, 97, 116, 105, 111, 110, 47, 120, 45, 119, 119, 119, 45, 102, 111, 114, 109, 45, 117, 114, 108, 101, 110, 99, 111, 100, 101, 100>>

\* getContentTypeString
GetContentTypeString(type) ==
    CASE type = "TextPlain" ->
           \* "text/plain"
           <<116, 101, 120, 116, 47, 112, 108, 97, 105, 110>>
      [] type = "TextHtml" ->
           \* "text/html"
           <<116, 101, 120, 116, 47, 104, 116, 109, 108>>
      [] type = "ApplicationJson" ->
           \* "application/json"
           <<97, 112, 112, 108, 105, 99, 97, 116, 105, 111, 110, 47, 106, 115, 111, 110>>
      [] type = "ApplicationXml" ->
           \* "application/xml"
           <<97, 112, 112, 108, 105, 99, 97, 116, 105, 111, 110, 47, 120, 109, 108>>
      [] type = "ApplicationFormUrlencoded" ->
           \* "application/x-www-form-urlencoded"
           <<97, 112, 112, 108, 105, 99, 97, 116, 105, 111, 110, 47, 120, 45, 119, 119, 119, 45, 102, 111, 114, 109, 45, 117, 114, 108, 101, 110, 99, 111, 100, 101, 100>>
      [] type = "MultipartFormData" ->
           \* "multipart/form-data"
           <<109, 117, 108, 116, 105, 112, 97, 114, 116, 47, 102, 111, 114, 109, 45, 100, 97, 116, 97>>
      [] type = "ApplicationOctetStream" ->
           \* "application/octet-stream"
           <<97, 112, 112, 108, 105, 99, 97, 116, 105, 111, 110, 47, 111, 99, 116, 101, 116, 45, 115, 116, 114, 101, 97, 109>>
      [] type = "ImagePng" ->
           \* "image/png"
           <<105, 109, 97, 103, 101, 47, 112, 110, 103>>
      [] type = "ImageJpeg" ->
           \* "image/jpeg"
           <<105, 109, 97, 103, 101, 47, 106, 112, 101, 103>>
      [] type = "ImageGif" ->
           \* "image/gif"
           <<105, 109, 97, 103, 101, 47, 103, 105, 102>>
      [] OTHER ->
           <<97, 112, 112, 108, 105, 99, 97, 116, 105, 111, 110, 47, 111, 99, 116, 101, 116, 45, 115, 116, 114, 101, 97, 109>>

DefaultTimeoutMs == 30000

\* HttpRequest(method, url): timeout_(30000), no header, no body, no cookie
NewRequest(method, u) ==
    [method |-> method, url |-> u, headers |-> <<>>, body |-> <<>>,
     timeout |-> DefaultTimeoutMs, cookies |-> <<>>]

\* Cookie(name, value)
CookieOf(name, val) == [CookieDefault EXCEPT !.name = name, !.value = val]

\* HttpRequest::addCookie(const Cookie&)
ReqAddCookie(r, cookie) == [r EXCEPT !.cookies = Append(@, cookie)]

\* HttpRequest::addCookie(name, value)
ReqAddCookieNameValue(r, name, val) == ReqAddCookie(r, CookieOf(name, val))

\* HttpRequest::setHeader
ReqSetHeader(r, key, val) == [r EXCEPT !.headers = MapPut(@, key, val)]

\* HttpRequest::setBody
ReqSetBody(r, b) == [r EXCEPT !.body = b]

\* HttpRequest::setTimeout
ReqSetTimeout(r, timeoutMs) == [r EXCEPT !.timeout = timeoutMs]

\* HttpRequest::setJsonContent: setContentType(ContentType::ApplicationJson)
ReqSetJsonContent(r) ==
    ReqSetHeader(r, S_ContentType, GetContentTypeString("ApplicationJson"))

\* HttpRequest::setFormContent
ReqSetFormContent(r) ==
    ReqSetHeader(r, S_ContentType, GetContentTypeString("ApplicationFormUrlencoded"))

RECURSIVE ReqSetHeadersFrom(_, _, _)
\* for (const auto& header : headers) request.setHeader(header.first, header.second)
ReqSetHeadersFrom(r, hs, keys) ==
    IF keys = <<>> THEN r
    ELSE ReqSetHeadersFrom(ReqSetHeader(r, Head(keys), hs[Head(keys)]), hs, Tail(keys))

ReqSetHeaders(r, hs) == ReqSetHeadersFrom(r, hs, SortedKeys(DOMAIN hs))

(***************************************************************************)
(* The requests the HttpClient shortcuts build before they call execute.   *)
(***************************************************************************)
\* a slip that builds del's request with Method::GET
DelRequestAsGet(u, hs) == ReqSetHeaders(NewRequest("GET", u), hs)

GetRequest(u, hs) == ReqSetHeaders(NewRequest("GET", u), hs)

PostRequest(u, data, hs) ==
    ReqSetHeaders(ReqSetBody(NewRequest("POST", u), data), hs)

PutRequest(u, data, hs) ==
    ReqSetHeaders(ReqSetBody(NewRequest("PUT", u), data), hs)

DelRequest(u, hs) == ReqSetHeaders(NewRequest("DELETE_METHOD", u), hs)

PatchRequest(u, data, hs) ==
    ReqSetHeaders(ReqSetBody(NewRequest("PATCH", u), data), hs)

HeadRequest(u, hs) == ReqSetHeaders(NewRequest("HEAD", u), hs)

OptionsRequest(u, hs) == ReqSetHeaders(NewRequest("OPTIONS", u), hs)

PostJsonRequest(u, json, hs) ==
    ReqSetHeaders(ReqSetBody(ReqSetJsonContent(NewRequest("POST", u)), json), hs)

PutJsonRequest(u, json, hs) ==
    ReqSetHeaders(ReqSetBody(ReqSetJsonContent(NewRequest("PUT", u)), json), hs)

PatchJsonRequest(u, json, hs) ==
    ReqSetHeaders(ReqSetBody(ReqSetJsonContent(NewRequest("PATCH", u)), json), hs)

PostFormRequest(u, formData, hs) ==
    ReqSetHeaders(
        ReqSetBody(ReqSetFormContent(NewRequest("POST", u)), BuildQueryString(formData)),
        hs)

PostMultipartRequest(u, formData, hs) ==
    ReqSetHeaders(
        ReqSetBody(
            ReqSetHeader(NewRequest("POST", u), S_ContentType, FormGetContentType(formData)),
            FormEncode(formData)),
        hs)

(***************************************************************************)
(* HttpClient::execute.  On Windows it is executeWindows, which hands the  *)
(* request to WinINet call by call; elsewhere it is executeLinux, which    *)
(* throws.  The WinINet calls made are recorded with their arguments.      *)
(***************************************************************************)
\* HttpClient::getMethodString
GetMethodString(method) ==
    CASE method = "GET" -> "GET"
      [] method = "POST" -> "POST"
      [] method = "PUT" -> "PUT"
      [] method = "DELETE_METHOD" -> "DELETE"
      [] method = "HEAD" -> "HEAD"
      [] method = "OPTIONS" -> "OPTIONS"
      [] method = "PATCH" -> "PATCH"
      [] method = "TRACE" -> "TRACE"
      [] method = "CONNECT" -> "CONNECT"
      [] OTHER -> "GET"

\* header.first + ": " + header.second + "\r\n"
HeaderLine(key, val) == key \o <<58, 32>> \o val \o S_CRLF

RECURSIVE HeaderLines(_, _)
HeaderLines(hs, keys) ==
    IF keys = <<>> THEN <<>>
    ELSE HeaderLine(Head(keys), hs[Head(keys)]) \o HeaderLines(hs, Tail(keys))

\* a slip that appends every default header, also one the request sets
HeaderStrAllDefaults(r, defaults) ==
    HeaderLines(r.headers, SortedKeys(DOMAIN r.headers))
    \o HeaderLines(defaults, SortedKeys(DOMAIN defaults))

\* headerStr: the request's headers, then the default headers whose key the
\* request does not have
HeaderStr(r, defaults) ==
    HeaderLines(r.headers, SortedKeys(DOMAIN r.headers))
    \o HeaderLines(defaults, SortedKeys(DOMAIN defaults \ DOMAIN r.headers))

\* the port as InternetConnectA takes it, an INTERNET_PORT of 16 bits
InternetPort(port) == port % 65536

\* the WinINet calls of executeWindows(r) with their arguments, u being
\* URL::parse(r.url); failAt names the call that fails, if one does
WinINetCalls(r, u, defaults, failAt) ==
    LET fullPath == u.path \o (IF u.query # <<>> THEN <<63>> \o u.query ELSE <<>>)
        headerStr == HeaderStr(r, defaults)
        connect == [api |-> "InternetConnectA", host |-> u.host,
                    port |-> InternetPort(u.port)]
        open == [api |-> "HttpOpenRequestA", verb |-> GetMethodString(r.method),
                 path |-> fullPath, secure |-> (u.scheme = S_https)]
        add == IF headerStr # <<>>
               THEN <<[api |-> "HttpAddRequestHeadersA", headers |-> headerStr]>>
               ELSE <<>>
        send == [api |-> "HttpSendRequestA", body |-> r.body]
    IN  IF failAt = "InternetConnectA" THEN <<connect>>
        ELSE IF failAt = "HttpOpenRequestA" THEN <<connect, open>>
        ELSE <<connect, open>> \o add \o <<send>>

\* the calls that can fail, "none" when the request goes through
FailPoints == {"none", "InternetConnectA", "HttpOpenRequestA", "HttpSendRequestA"}

(***************************************************************************)
(* The arguments of the calls.                                             *)
(***************************************************************************)
U_Good == <<104, 116, 116, 112, 115, 58, 47, 47, 104, 58, 56, 47, 112, 63, 113>>
U_BadPort == <<104, 58, 120>>
U_Plain == <<104, 116, 116, 112, 58, 47, 47, 104>>

ClientUrls == {U_Good, U_BadPort, U_Plain}
GlobalUrls == {U_Plain, U_BadPort}

\* "", "d"
ClientData == {<<>>, <<100>>}

\* "", "{}"
ClientJson == {<<>>, <<123, 125>>}

\* {}, {"A": "1"}
ClientHeaderArgs == {<<>>, <<65>> :> <<49>>}
GlobalHeaderArgs == ClientHeaderArgs

\* {}, {"k": "v w"}
ClientForms == {<<>>, <<107>> :> <<118, 32, 119>>}

ClientFormDatas == {FormDataNew(7), FormAddField(FormDataNew(12), <<110>>, <<118>>)}

\* requests made with HttpRequest's own setters
ClientRequests ==
    {NewRequest("GET", U_Good),
     ReqSetTimeout(
         ReqSetBody(ReqSetHeader(NewRequest("POST", U_Good), <<65>>, <<49>>), <<100>>), 10000),
     ReqSetHeader(ReqSetHeader(NewRequest("TRACE", U_Plain), <<97>>, <<49>>), <<67>>, <<50>>),
     ReqSetTimeout(NewRequest("GET", U_BadPort), 5000),
     \* a request with the header A: 1 and the cookies a=1 (Domain=d), b=2
     ReqAddCookieNameValue(
         ReqAddCookie(ReqSetHeader(NewRequest("GET", U_Good), <<65>>, <<49>>),
                      [CookieOf(<<97>>, <<49>>) EXCEPT !.domain = <<100>>]),
         <<98>>, <<50>>)}

GlobalRequests == {ReqSetTimeout(NewRequest("CONNECT", U_Plain), 5000)}

\* "A", "B"
DefaultHeaderKeys == {<<65>>, <<66>>}

\* "0", "9"
DefaultHeaderValues == {<<48>>, <<57>>}

ClientTimeouts == {5000}

(***************************************************************************)
(* HttpClient                                                              *)
(***************************************************************************)
\* The client is used from one thread, call after call: a call runs to its
\* end, its caller takes the response or the exception (TakeResult), and
\* the next call follows.  invoked, executeCalls, wire and outcome describe
\* the call that has just ended.

\* HttpClient::setDefaultTimeout
SetDefaultTimeout ==
    /\ invoked = NoInvocation
    /\ \E timeoutMs \in ClientTimeouts : defaultTimeout_' = timeoutMs
    /\ UNCHANGED <<platform, defaultHeaders_, invoked, executeCalls, wire, outcome,
                   clientOthers>>

\* HttpClient::setDefaultHeader
SetDefaultHeader ==
    /\ invoked = NoInvocation
    /\ \E key \in DefaultHeaderKeys, val \in DefaultHeaderValues :
          defaultHeaders_' = MapPut(defaultHeaders_, key, val)
    /\ UNCHANGED <<platform, defaultTimeout_, invoked, executeCalls, wire, outcome,
                   clientOthers>>

\* the caller takes what the call returned or threw
TakeResult ==
    /\ invoked # NoInvocation
    /\ invoked' = NoInvocation
    /\ executeCalls' = <<>>
    /\ wire' = <<>>
    /\ outcome' = "none"
    /\ UNCHANGED <<platform, defaultTimeout_, defaultHeaders_, clientOthers>>

\* the WinINet calls that can fail for request r: none is reached when
\* URL::parse throws, and none exists off Windows
FailChoices(r) ==
    IF platform = "win32" /\ ~UrlParse(r.url).threw THEN FailPoints ELSE {"none"}

\* HttpClient::execute(r) on a client whose default headers are defaults:
\* executeWindows under _WIN32, executeLinux otherwise
Execute(r, defaults, failAt) ==
    /\ executeCalls' = Append(<<>>, r)
    /\ IF platform = "win32"
       THEN LET u == UrlParse(r.url)
            IN  IF u.threw
                THEN wire' = <<>> /\ outcome' = u.what
                ELSE /\ wire' = WinINetCalls(r, u, defaults, failAt)
                     /\ outcome' = IF failAt = "none" THEN "response"
                                   ELSE "NetworkException"
       ELSE wire' = <<>> /\ outcome' = "NetworkException"

\* a call of shortcut or function fn with URL u, argument arg and headers hs,
\* which builds request r and returns execute(r); a namespace-level function
\* does so on an HttpClient it constructs, which has no default header
Invoke(fn, global, u, arg, hs, r) ==
    /\ invoked = NoInvocation
    /\ invoked' = [fn |-> fn, global |-> global, url |-> u, arg |-> arg, headers |-> hs]
    /\ \E failAt \in FailChoices(r) :
          Execute(r, IF global THEN <<>> ELSE defaultHeaders_, failAt)
    /\ UNCHANGED <<platform, defaultTimeout_, defaultHeaders_, clientOthers>>

\* HttpClient::get
Client_get ==
    \E u \in ClientUrls, hs \in ClientHeaderArgs :
        Invoke("get", FALSE, u, <<>>, hs, GetRequest(u, hs))

\* HttpClient::del
Client_del ==
    \E u \in ClientUrls, hs \in ClientHeaderArgs :
        Invoke("del", FALSE, u, <<>>, hs, DelRequest(u, hs))

\* HttpClient::head
Client_head ==
    \E u \in ClientUrls, hs \in ClientHeaderArgs :
        Invoke("head", FALSE, u, <<>>, hs, HeadRequest(u, hs))

\* HttpClient::options
Client_options ==
    \E u \in ClientUrls, hs \in ClientHeaderArgs :
        Invoke("options", FALSE, u, <<>>, hs, OptionsRequest(u, hs))

\* HttpClient::post
Client_post ==
    \E u \in ClientUrls, arg \in ClientData, hs \in ClientHeaderArgs :
        Invoke("post", FALSE, u, arg, hs, PostRequest(u, arg, hs))

\* HttpClient::put
Client_put ==
    \E u \in ClientUrls, arg \in ClientData, hs \in ClientHeaderArgs :
        Invoke("put", FALSE, u, arg, hs, PutRequest(u, arg, hs))

\* HttpClient::patch
Client_patch ==
    \E u \in ClientUrls, arg \in ClientData, hs \in ClientHeaderArgs :
        Invoke("patch", FALSE, u, arg, hs, PatchRequest(u, arg, hs))

\* HttpClient::postJson
Client_postJson ==
    \E u \in ClientUrls, arg \in ClientJson, hs \in ClientHeaderArgs :
        Invoke("postJson", FALSE, u, arg, hs, PostJsonRequest(u, arg, hs))

\* HttpClient::putJson
Client_putJson ==
    \E u \in ClientUrls, arg \in ClientJson, hs \in ClientHeaderArgs :
        Invoke("putJson", FALSE, u, arg, hs, PutJsonRequest(u, arg, hs))

\* HttpClient::patchJson
Client_patchJson ==
    \E u \in ClientUrls, arg \in ClientJson, hs \in ClientHeaderArgs :
        Invoke("patchJson", FALSE, u, arg, hs, PatchJsonRequest(u, arg, hs))

\* HttpClient::postForm
Client_postForm ==
    \E u \in ClientUrls, arg \in ClientForms, hs \in ClientHeaderArgs :
        Invoke("postForm", FALSE, u, arg, hs, PostFormRequest(u, arg, hs))

\* HttpClient::postMultipart
Client_postMultipart ==
    \E u \in ClientUrls, arg \in ClientFormDatas, hs \in ClientHeaderArgs :
        Invoke("postMultipart", FALSE, u, arg, hs, PostMultipartRequest(u, arg, hs))

\* HttpClient::execute
Client_execute == \E r \in ClientRequests : Invoke("execute", FALSE, r.url, r, <<>>, r)

\* fasthttp::get, on a client of its own
Global_get ==
    \E u \in GlobalUrls, hs \in GlobalHeaderArgs :
        Invoke("get", TRUE, u, <<>>, hs, GetRequest(u, hs))

\* fasthttp::del, on a client of its own
Global_del ==
    \E u \in GlobalUrls, hs \in GlobalHeaderArgs :
        Invoke("del", TRUE, u, <<>>, hs, DelRequest(u, hs))

\* fasthttp::head, on a client of its own
Global_head ==
    \E u \in GlobalUrls, hs \in GlobalHeaderArgs :
        Invoke("head", TRUE, u, <<>>, hs, HeadRequest(u, hs))

\* fasthttp::options, on a client of its own
Global_options ==
    \E u \in GlobalUrls, hs \in GlobalHeaderArgs :
        Invoke("options", TRUE, u, <<>>, hs, OptionsRequest(u, hs))

\* fasthttp::post, on a client of its own
Global_post ==
    \E u \in GlobalUrls, arg \in ClientData, hs \in GlobalHeaderArgs :
        Invoke("post", TRUE, u, arg, hs, PostRequest(u, arg, hs))

\* fasthttp::put, on a client of its own
Global_put ==
    \E u \in GlobalUrls, arg \in ClientData, hs \in GlobalHeaderArgs :
        Invoke("put", TRUE, u, arg, hs, PutRequest(u, arg, hs))

\* fasthttp::patch, on a client of its own
Global_patch ==
    \E u \in GlobalUrls, arg \in ClientData, hs \in GlobalHeaderArgs :
        Invoke("patch", TRUE, u, arg, hs, PatchRequest(u, arg, hs))

\* fasthttp::postJson, on a client of its own
Global_postJson ==
    \E u \in GlobalUrls, arg \in ClientJson, hs \in GlobalHeaderArgs :
        Invoke("postJson", TRUE, u, arg, hs, PostJsonRequest(u, arg, hs))

\* fasthttp::putJson, on a client of its own
Global_putJson ==
    \E u \in GlobalUrls, arg \in ClientJson, hs \in GlobalHeaderArgs :
        Invoke("putJson", TRUE, u, arg, hs, PutJsonRequest(u, arg, hs))

\* fasthttp::patchJson, on a client of its own
Global_patchJson ==
    \E u \in GlobalUrls, arg \in ClientJson, hs \in GlobalHeaderArgs :
        Invoke("patchJson", TRUE, u, arg, hs, PatchJsonRequest(u, arg, hs))

\* fasthttp::postForm, on a client of its own
Global_postForm ==
    \E u \in GlobalUrls, arg \in ClientForms, hs \in GlobalHeaderArgs :
        Invoke("postForm", TRUE, u, arg, hs, PostFormRequest(u, arg, hs))

\* fasthttp::postMultipart, on a client of its own
Global_postMultipart ==
    \E u \in GlobalUrls, arg \in ClientFormDatas, hs \in GlobalHeaderArgs :
        Invoke("postMultipart", TRUE, u, arg, hs, PostMultipartRequest(u, arg, hs))

\* fasthttp::execute, on a client of its own
Global_execute == \E r \in GlobalRequests : Invoke("execute", TRUE, r.url, r, <<>>, r)

\* HttpClient(): defaultTimeout_(30000), no default header
ClientInit ==
    /\ platform \in {"win32", "other"}
    /\ defaultTimeout_ = DefaultTimeoutMs
    /\ defaultHeaders_ = <<>>
    /\ invoked = NoInvocation
    /\ executeCalls = <<>>
    /\ wire = <<>>
    /\ outcome = "none"
    /\ CodecIdle /\ UrlIdle /\ RespIdle /\ BuilderIdle /\ CookieIdle /\ FormIdle
    /\ StatusIdle /\ QueryIdle

ClientNext ==
    \/ TakeResult
    \/ SetDefaultTimeout
    \/ SetDefaultHeader
    \/ Client_get
    \/ Client_del
    \/ Client_head
    \/ Client_options
    \/ Client_post
    \/ Client_put
    \/ Client_patch
    \/ Client_postJson
    \/ Client_putJson
    \/ Client_patchJson
    \/ Client_postForm
    \/ Client_postMultipart
    \/ Client_execute
    \/ Global_get
    \/ Global_del
    \/ Global_head
    \/ Global_options
    \/ Global_post
    \/ Global_put
    \/ Global_patch
    \/ Global_postJson
    \/ Global_putJson
    \/ Global_patchJson
    \/ Global_postForm
    \/ Global_postMultipart
    \/ Global_execute

SpecClient == ClientInit /\ [][ClientNext]_vars

(***************************************************************************)
(* What a call handed to WinINet, read back from the recorded calls.       *)
(***************************************************************************)
\* the call reached HttpSendRequestA: the request was handed over whole
SendReached == \E i \in DOMAIN wire : wire[i].api = "HttpSendRequestA"

\* the string given to HttpAddRequestHeadersA, empty when it was not called
WireHeaderStr ==
    IF \E i \in DOMAIN wire : wire[i].api = "HttpAddRequestHeadersA"
    THEN wire[CHOOSE i \in DOMAIN wire : wire[i].api = "HttpAddRequestHeadersA"].headers
    ELSE <<>>

\* the position of the first CR LF of s at or after i, 0 when there is none
RECURSIVE CrLfAt(_, _)
CrLfAt(s, i) ==
    IF i + 1 > Len(s) THEN 0
    ELSE IF s[i] = 13 /\ s[i + 1] = 10 THEN i
    ELSE CrLfAt(s, i + 1)

\* the lines of s, each ended by CR LF
RECURSIVE LinesOf(_)
LinesOf(s) ==
    IF s = <<>> THEN <<>>
    ELSE LET e == CrLfAt(s, 1)
         IN  IF e = 0 THEN <<s>>
             ELSE <<SubSeq(s, 1, e - 1)>> \o LinesOf(SubSeq(s, e + 2, Len(s)))

\* the position of the first ": " of line l, 0 when there is none
RECURSIVE ColonAt(_, _)
ColonAt(l, i) ==
    IF i + 1 > Len(l) THEN 0
    ELSE IF l[i] = 58 /\ l[i + 1] = 32 THEN i
    ELSE ColonAt(l, i + 1)

\* the header a line carries, as <<key, value>>
LineHeader(l) ==
    LET c == ColonAt(l, 1)
    IN  IF c = 0 THEN <<l, <<>>>>
        ELSE <<SubSeq(l, 1, c - 1), SubSeq(l, c + 2, Len(l))>>

\* the header lines handed to WinINet by the call
SentLines == LinesOf(WireHeaderStr)
SentHeaders == {LineHeader(SentLines[i]) : i \in DOMAIN SentLines}

\* the default headers of the client the call ran on: a namespace-level
\* function runs on a client of its own, which has none
DefaultsOfCall == IF invoked.global THEN <<>> ELSE defaultHeaders_

(***************************************************************************)
(* C7: when execute hands a request over, the headers given to the         *)
(* transport are exactly the request's headers plus the default headers    *)
(* whose key the request does not have, each once; on a key both have, the *)
(* request's value is sent and the default's is not.                       *)
(***************************************************************************)
C7_MergedHeaders ==
    SendReached =>
        LET req == executeCalls[1]
            d == DefaultsOfCall
        IN  /\ SentHeaders =
                   {<<k, req.headers[k]>> : k \in DOMAIN req.headers}
                   \cup {<<k, d[k]>> : k \in (DOMAIN d) \ (DOMAIN req.headers)}
            /\ Len(SentLines) = Cardinality(SentHeaders)
            /\ \A k \in (DOMAIN d) \cap (DOMAIN req.headers) :
                   d[k] # req.headers[k] => <<k, d[k]>> \notin SentHeaders

\* a call with header A: 1 on a client whose defaults are A: 0 and B: 9 sent
\* A: 1 and B: 9
C7_Witness ==
    /\ SendReached
    /\ ~invoked.global
    /\ defaultHeaders_ = (<<65>> :> <<48>>) @@ (<<66>> :> <<57>>)
    /\ executeCalls[1].headers = (<<65>> :> <<49>>)
    /\ SentHeaders = {<<<<65>>, <<49>>>>, <<<<66>>, <<57>>>>}

(***************************************************************************)
(* C8: every HttpClient shortcut and every namespace-level function calls  *)
(* HttpClient::execute exactly once, with a request that carries the       *)
(* shortcut's method, the URL it was given and the body its argument       *)
(* makes; whatever reaches WinINet is that request's, so nothing is sent   *)
(* by another path.                                                        *)
(***************************************************************************)
MethodOfShortcut(fn) ==
    CASE fn \in {"get"} -> "GET"
      [] fn \in {"post", "postJson", "postForm", "postMultipart"} -> "POST"
      [] fn \in {"put", "putJson"} -> "PUT"
      [] fn \in {"patch", "patchJson"} -> "PATCH"
      [] fn \in {"del"} -> "DELETE_METHOD"
      [] fn \in {"head"} -> "HEAD"
      [] fn \in {"options"} -> "OPTIONS"

BodyOfShortcut(fn, arg) ==
    CASE fn \in {"get", "del", "head", "options"} -> <<>>
      [] fn \in {"post", "put", "patch", "postJson", "putJson", "patchJson"} -> arg
      [] fn \in {"postForm"} -> BuildQueryString(arg)
      [] fn \in {"postMultipart"} -> FormEncode(arg)

VerbOfMethod ==
    [GET |-> "GET", POST |-> "POST", PUT |-> "PUT", DELETE_METHOD |-> "DELETE",
     HEAD |-> "HEAD", OPTIONS |-> "OPTIONS", PATCH |-> "PATCH", TRACE |-> "TRACE",
     CONNECT |-> "CONNECT"]

SentTimeouts ==
    {wire[i].timeout : i \in {j \in DOMAIN wire : "timeout" \in DOMAIN wire[j]}}

C9_TimeoutHanded ==
    SendReached => SentTimeouts = {executeCalls[1].timeout}

(***************************************************************************)
(* RequestBuilder                                                          *)
(***************************************************************************)
S_ContentLength == <<67, 111, 110, 116, 101, 110, 116, 45, 76, 101, 110, 103, 116, 104>>

\* RequestBuilder(method, url): timeout_(30000), nothing else set
RbNew(method, u) ==
    [method_ |-> method, url_ |-> u, headers_ |-> <<>>, body_ |-> <<>>,
     timeout_ |-> DefaultTimeoutMs, cookies_ |-> <<>>]

\* RequestBuilder::addHeader
RbAddHeader(rb, key, val) == [rb EXCEPT !.headers_ = MapPut(@, key, val)]

\* RequestBuilder::setContentType
RbSetContentType(rb, type) == RbAddHeader(rb, S_ContentType, GetContentTypeString(type))

\* a slip that writes Content-Length for an empty body too
RbSetBodyAlwaysLength(rb, b) ==
    RbAddHeader([rb EXCEPT !.body_ = b], S_ContentLength, StdToString(Len(b)))

\* RequestBuilder::setBody
RbSetBody(rb, b) ==
    LET rb1 == [rb EXCEPT !.body_ = b]
    IN  IF b # <<>>
        THEN RbAddHeader(rb1, S_ContentLength, StdToString(Len(b)))
        ELSE rb1

\* RequestBuilder::setJsonBody
RbSetJsonBody(rb, json) == RbSetBody(RbSetContentType(rb, "ApplicationJson"), json)

\* RequestBuilder::setFormData
RbSetFormData(rb, formData) ==
    RbSetBody(RbAddHeader(rb, S_ContentType, FormGetContentType(formData)),
              FormEncode(formData))

\* RequestBuilder::setFormUrlEncoded
RbSetFormUrlEncoded(rb, params) ==
    RbSetBody(RbSetContentType(rb, "ApplicationFormUrlencoded"), BuildQueryString(params))

\* the arguments of the calls: "", "d", "0123456789ab"
BuilderBodies == {<<>>, <<100>>, <<48, 49, 50, 51, 52, 53, 54, 55, 56, 57, 97, 98>>}

S_Cookie == <<67, 111, 111, 107, 105, 101>>

\* Content-Length: 99, X: 1, Cookie: x
BuilderHeaderArgs == {<<S_ContentLength, <<57, 57>>>>, <<<<88>>, <<49>>>>, <<S_Cookie, <<120>>>>}

BuilderMethods == {"GET", "POST"}

Builder_addHeader ==
    /\ \E h \in BuilderHeaderArgs :
          /\ builder' = RbAddHeader(builder, h[1], h[2])
          /\ rbOp' = [op |-> "addHeader", arg |-> h]
    /\ UNCHANGED <<built, rbTrace, builderOthers>>

Builder_setBody ==
    /\ \E b \in BuilderBodies :
          /\ builder' = RbSetBody(builder, b)
          /\ rbOp' = [op |-> "setBody", arg |-> b]
    /\ UNCHANGED <<built, rbTrace, builderOthers>>

Builder_setJsonBody ==
    /\ \E json \in ClientJson :
          /\ builder' = RbSetJsonBody(builder, json)
          /\ rbOp' = [op |-> "setJsonBody", arg |-> json]
    /\ UNCHANGED <<built, rbTrace, builderOthers>>

Builder_setFormData ==
    /\ \E formData \in ClientFormDatas :
          /\ builder' = RbSetFormData(builder, formData)
          /\ rbOp' = [op |-> "setFormData", arg |-> formData]
    /\ UNCHANGED <<built, rbTrace, builderOthers>>

Builder_setFormUrlEncoded ==
    /\ \E params \in ClientForms :
          /\ builder' = RbSetFormUrlEncoded(builder, params)
          /\ rbOp' = [op |-> "setFormUrlEncoded", arg |-> params]
    /\ UNCHANGED <<built, rbTrace, builderOthers>>

\* http://h, https://h:8/p?q, http://h/p#f
BuilderUrls == {U_Plain, U_Good, <<104, 116, 116, 112, 58, 47, 47, 104, 47, 112, 35, 102>>}

BuilderInit ==
    /\ \E method \in BuilderMethods, u \in BuilderUrls :
          /\ builder = RbNew(method, u)
          /\ rbTrace = [url |-> u, params |-> <<>>]
    /\ rbOp = [op |-> "new", arg |-> <<>>]
    /\ built = NoRequest
    /\ CodecIdle /\ UrlIdle /\ RespIdle /\ ClientIdle /\ CookieIdle /\ FormIdle
    /\ StatusIdle /\ QueryIdle

BuilderNext ==
    \/ Builder_addHeader
    \/ Builder_setBody
    \/ Builder_setJsonBody
    \/ Builder_setFormData
    \/ Builder_setFormUrlEncoded

SpecBuilder == BuilderInit /\ [][BuilderNext]_vars

(***************************************************************************)
(* C10: a body setter of RequestBuilder that results in a non-empty body   *)
(* sets Content-Length to the decimal length of the body, and one that     *)
(* results in an empty body adds no Content-Length header (the header is   *)
(* as it was before the call); setJsonBody, setFormUrlEncoded and          *)
(* setFormData set Content-Type to application/json,                       *)
(* application/x-www-form-urlencoded and the FormData's getContentType(),  *)
(* and the body to the json text, buildQueryString(params) and             *)
(* formData.encode().                                                      *)
(***************************************************************************)
BodySetters == {"setBody", "setJsonBody", "setFormUrlEncoded", "setFormData"}

\* the body the call rbOp describes is to result in
BodyOfSetter(c) ==
    CASE c.op \in {"setBody", "setJsonBody"} -> c.arg
      [] c.op = "setFormUrlEncoded" -> BuildQueryString(c.arg)
      [] c.op = "setFormData" -> FormEncode(c.arg)

\* the Content-Type the call rbOp describes is to set
TypeOfSetter(c) ==
    CASE c.op = "setJsonBody" -> S_ApplicationJson
      [] c.op = "setFormUrlEncoded" -> S_FormUrlencoded
      [] c.op = "setFormData" -> FormGetContentType(c.arg)

\* header key of map hs as an optional value: a set of at most one value
HeaderOpt(hs, key) == IF key \in DOMAIN hs THEN {hs[key]} ELSE {}

BodySetterStep ==
    rbOp'.op \in BodySetters =>
        LET b == BodyOfSetter(rbOp')
        IN  /\ builder'.body_ = b
            /\ IF b # <<>>
               THEN /\ S_ContentLength \in DOMAIN builder'.headers_
                    /\ builder'.headers_[S_ContentLength] # <<>>
                    /\ \A i \in DOMAIN builder'.headers_[S_ContentLength] :
                           IsDigit(builder'.headers_[S_ContentLength][i])
                    /\ builder'.headers_[S_ContentLength][1] # 48
                    /\ DecimalOf(builder'.headers_[S_ContentLength]) = Len(b)
               ELSE HeaderOpt(builder'.headers_, S_ContentLength)
                        = HeaderOpt(builder.headers_, S_ContentLength)
            /\ rbOp'.op # "setBody" =>
                   HeaderOpt(builder'.headers_, S_ContentType) = {TypeOfSetter(rbOp')}

C10_BodySetters == [][BodySetterStep]_vars

\* setFormUrlEncoded({"k": "v w"}) left the body k=v%20w, its length as
\* Content-Length and the form Content-Type
C10_Witness ==
    /\ rbOp.op = "setFormUrlEncoded"
    /\ rbOp.arg # <<>>
    /\ builder.body_ = <<107, 61, 118, 37, 50, 48, 119>>
    /\ builder.headers_[S_ContentLength] = <<55>>
    /\ builder.headers_[S_ContentType] = S_FormUrlencoded

(***************************************************************************)
(* RequestBuilder::addCookie and RequestBuilder::build                     *)
(***************************************************************************)
MaxCookies == 2

\* RequestBuilder::addCookie(const Cookie&)
RbAddCookie(rb, cookie) == [rb EXCEPT !.cookies_ = Append(@, cookie)]

\* RequestBuilder::addCookie(name, value)
RbAddCookieNameValue(rb, name, val) == RbAddCookie(rb, CookieOf(name, val))

RECURSIVE CookieHeaderFrom(_, _)
\* the loop of build() over cookies_ from index i (0-based)
CookieHeaderFrom(cookies, i) ==
    IF i >= Len(cookies) THEN <<>>
    ELSE (IF i > 0 THEN <<59, 32>> ELSE <<>>)
         \o cookies[i + 1].name \o <<61>> \o cookies[i + 1].value
         \o CookieHeaderFrom(cookies, i + 1)

\* a slip that keeps a Cookie header the builder already has
RbBuildKeepingHeader(rb) ==
    LET r1 == ReqSetHeaders(NewRequest(rb.method_, rb.url_), rb.headers_)
        r2 == IF rb.cookies_ # <<>> /\ S_Cookie \notin DOMAIN rb.headers_
              THEN ReqSetHeader(r1, S_Cookie, CookieHeaderFrom(rb.cookies_, 0))
              ELSE r1
    IN  ReqSetTimeout(ReqSetBody(r2, rb.body_), rb.timeout_)

\* a slip that leaves the request's timeout as its constructor set it
RbBuildDefaultTimeout(rb) ==
    LET r1 == ReqSetHeaders(NewRequest(rb.method_, rb.url_), rb.headers_)
        r2 == IF rb.cookies_ # <<>>
              THEN ReqSetHeader(r1, S_Cookie, CookieHeaderFrom(rb.cookies_, 0))
              ELSE r1
    IN  ReqSetBody(r2, rb.body_)

\* RequestBuilder::build
RbBuild(rb) ==
    LET r1 == ReqSetHeaders(NewRequest(rb.method_, rb.url_), rb.headers_)
        r2 == IF rb.cookies_ # <<>>
              THEN ReqSetHeader(r1, S_Cookie, CookieHeaderFrom(rb.cookies_, 0))
              ELSE r1
    IN  ReqSetTimeout(ReqSetBody(r2, rb.body_), rb.timeout_)

\* a=1 with Domain=d and Secure; b=2 given as name and value
BuilderCookies ==
    {[CookieOf(<<97>>, <<49>>) EXCEPT !.domain = <<100>>, !.secure = TRUE]}
BuilderCookieNames == {<<98>>}
BuilderCookieValues == {<<50>>}

Builder_addCookie ==
    /\ Len(builder.cookies_) < MaxCookies
    /\ \E cookie \in BuilderCookies :
          /\ builder' = RbAddCookie(builder, cookie)
          /\ rbOp' = [op |-> "addCookie", arg |-> cookie]
    /\ UNCHANGED <<built, rbTrace, builderOthers>>

Builder_addCookieNameValue ==
    /\ Len(builder.cookies_) < MaxCookies
    /\ \E name \in BuilderCookieNames, val \in BuilderCookieValues :
          /\ builder' = RbAddCookieNameValue(builder, name, val)
          /\ rbOp' = [op |-> "addCookie", arg |-> CookieOf(name, val)]
    /\ UNCHANGED <<built, rbTrace, builderOthers>>

Builder_build ==
    /\ built' = RbBuild(builder)
    /\ rbOp' = [op |-> "build", arg |-> <<>>]
    /\ UNCHANGED <<builder, rbTrace, builderOthers>>

\* a builder on which headers and cookies are added and build() is called
BuilderCookiesNext ==
    \/ Builder_addHeader
    \/ Builder_addCookie
    \/ Builder_addCookieNameValue
    \/ Builder_build

SpecBuilderCookies == BuilderInit /\ [][BuilderCookiesNext]_vars

(***************************************************************************)
(* C11: build() on a builder with n >= 1 cookies yields a request whose    *)
(* 'Cookie' header is the cookies' name=value pairs joined by "; " in the  *)
(* order of the addCookie calls, attributes left out, whatever 'Cookie'    *)
(* header addHeader had set; with no cookie build() adds no Cookie header: *)
(* the request's headers are the builder's.                                *)
(***************************************************************************)
RECURSIVE JoinPairs(_)
\* name=value of each cookie, "; " between two
JoinPairs(cookies) ==
    IF cookies = <<>> THEN <<>>
    ELSE IF Len(cookies) = 1 THEN cookies[1].name \o <<61>> \o cookies[1].value
    ELSE JoinPairs(SubSeq(cookies, 1, Len(cookies) - 1)) \o <<59, 32>>
         \o cookies[Len(cookies)].name \o <<61>> \o cookies[Len(cookies)].value

C11_CookieHeader ==
    rbOp.op = "build" =>
        IF builder.cookies_ # <<>>
        THEN /\ S_Cookie \in DOMAIN built.headers
             /\ built.headers[S_Cookie] = JoinPairs(builder.cookies_)
             /\ \A k \in DOMAIN built.headers \ {S_Cookie} :
                    k \in DOMAIN builder.headers_ /\ built.headers[k] = builder.headers_[k]
             /\ DOMAIN builder.headers_ \subseteq DOMAIN built.headers
        ELSE built.headers = builder.headers_

\* a=1 (with Domain and Secure) then b=2 were added over a header Cookie: x,
\* and build() returned Cookie: a=1; b=2
C11_Witness ==
    /\ rbOp.op = "build"
    /\ Len(builder.cookies_) = 2
    /\ builder.cookies_[1].domain # <<>>
    /\ S_Cookie \in DOMAIN builder.headers_
    /\ built.headers[S_Cookie] = <<97, 61, 49, 59, 32, 98, 61, 50>>

(***************************************************************************)
(* RequestBuilder::addQueryParam and addQueryParams                        *)
(***************************************************************************)
MaxParams == 2

\* a slip that always separates with '?'
RbAddQueryParamQuestion(rb, key, val) ==
    [rb EXCEPT !.url_ = @ \o <<63>> \o Encode(key) \o <<61>> \o Encode(val)]

\* RequestBuilder::addQueryParam
RbAddQueryParam(rb, key, val) ==
    LET separator == IF FindChar(rb.url_, 63) # npos THEN <<38>> ELSE <<63>>
    IN  [rb EXCEPT !.url_ = @ \o separator \o Encode(key) \o <<61>> \o Encode(val)]

RECURSIVE RbAddQueryParamsFrom(_, _, _)
\* the loop of addQueryParams over params
RbAddQueryParamsFrom(rb, params, keys) ==
    IF keys = <<>> THEN rb
    ELSE RbAddQueryParamsFrom(RbAddQueryParam(rb, Head(keys), params[Head(keys)]),
                              params, Tail(keys))

\* RequestBuilder::addQueryParams
RbAddQueryParams(rb, params) ==
    RbAddQueryParamsFrom(rb, params, SortedKeys(DOMAIN params))

\* the pairs of params in the order addQueryParams adds them
PairsOf(params) ==
    LET keys == SortedKeys(DOMAIN params)
    IN  [i \in 1..Len(keys) |-> <<keys[i], params[keys[i]]>>]

\* "k", "a b"
BuilderParamKeys == {<<107>>, <<97, 32, 98>>}
\* "v", "?"
BuilderParamValues == {<<118>>, <<63>>}
\* {}, {"k": "v w"}, {"a": "?", "b": ""}
BuilderParamMaps == ClientForms \cup {(<<97>> :> <<63>>) @@ (<<98>> :> <<>>)}

Builder_addQueryParam ==
    /\ Len(rbTrace.params) < MaxParams
    /\ \E key \in BuilderParamKeys, val \in BuilderParamValues :
          /\ builder' = RbAddQueryParam(builder, key, val)
          /\ rbOp' = [op |-> "addQueryParam", arg |-> <<key, val>>]
          /\ rbTrace' = [rbTrace EXCEPT !.params = Append(@, <<key, val>>)]
    /\ UNCHANGED <<built, builderOthers>>

Builder_addQueryParams ==
    /\ \E params \in BuilderParamMaps :
          /\ Len(rbTrace.params) + Cardinality(DOMAIN params) <= MaxParams
          /\ builder' = RbAddQueryParams(builder, params)
          /\ rbOp' = [op |-> "addQueryParams", arg |-> params]
          /\ rbTrace' = [rbTrace EXCEPT !.params = @ \o PairsOf(params)]
    /\ UNCHANGED <<built, builderOthers>>

\* a builder on which query parameters are added and build() is called
BuilderQueryNext ==
    \/ Builder_addQueryParam
    \/ Builder_addQueryParams
    \/ Builder_build

SpecBuilderQuery == BuilderInit /\ [][BuilderQueryNext]_vars

(***************************************************************************)
(* C12: each addQueryParam(k, v) appends one separator and                 *)
(* encode(k) + '=' + encode(v), the separator being '?' when the URL so    *)
(* far holds no '?' and '&' otherwise; after n calls the URL is the        *)
(* original URL followed by the n encoded pairs in call order, and the     *)
(* builder has introduced at most one '?'.                                 *)
(***************************************************************************)
\* how often byte c occurs in s
Count(s, c) == Cardinality({i \in DOMAIN s : s[i] = c})

RECURSIVE UrlAfter(_, _)
\* the URL after the calls ps on the URL u, call by call
UrlAfter(u, ps) ==
    IF ps = <<>> THEN u
    ELSE LET before == UrlAfter(u, SubSeq(ps, 1, Len(ps) - 1))
             last == ps[Len(ps)]
         IN  before \o (IF Count(before, 63) = 0 THEN <<63>> ELSE <<38>>)
             \o Encode(last[1]) \o <<61>> \o Encode(last[2])

C12_QueryAppended ==
    /\ builder.url_ = UrlAfter(rbTrace.url, rbTrace.params)
    /\ Len(builder.url_) >= Len(rbTrace.url)
    /\ SubSeq(builder.url_, 1, Len(rbTrace.url)) = rbTrace.url
    /\ Count(builder.url_, 63) - Count(rbTrace.url, 63) <= 1
    /\ Count(builder.url_, 63) - Count(rbTrace.url, 63) = 1 <=>
           (rbTrace.params # <<>> /\ Count(rbTrace.url, 63) = 0)
    /\ Count(builder.url_, 38) - Count(rbTrace.url, 38) =
           IF rbTrace.params = <<>> THEN 0
           ELSE IF Count(rbTrace.url, 63) = 0 THEN Len(rbTrace.params) - 1
           ELSE Len(rbTrace.params)

\* http://h after addQueryParam("a b", "?") and addQueryParam("k", "v")
C12_Witness ==
    /\ rbTrace.url = U_Plain
    /\ rbTrace.params = <<<<<<97, 32, 98>>, <<63>>>>, <<<<107>>, <<118>>>>>>
    /\ builder.url_ = <<104, 116, 116, 112, 58, 47, 47, 104, 63, 97, 37, 50, 48, 98, 61, 37, 51, 70, 38, 107, 61, 118>>

(***************************************************************************)
(* The parts of a URL text as the claims about URL::parse name them,       *)
(* with 1-based positions and 0 for "not there".                           *)
(***************************************************************************)
\* the position of the first c in s
FirstAt(s, c) ==
    IF \E i \in DOMAIN s : s[i] = c
    THEN CHOOSE i \in DOMAIN s : s[i] = c /\ \A j \in 1..(i - 1) : s[j] # c
    ELSE 0

Before(s, i) == SubSeq(s, 1, i - 1)
After(s, i) == SubSeq(s, i + 1, Len(s))

\* the position of the first "://" in u
SepAt(u) ==
    LET here(i) == i + 2 <= Len(u) /\ u[i] = 58 /\ u[i + 1] = 47 /\ u[i + 2] = 47
    IN  IF \E i \in DOMAIN u : here(i)
        THEN CHOOSE i \in DOMAIN u : here(i) /\ \A j \in 1..(i - 1) : ~here(j)
        ELSE 0

SchemeOf(u) == IF SepAt(u) = 0 THEN <<>> ELSE Before(u, SepAt(u))

\* the text after the scheme separator, the whole input when there is none
AfterScheme(u) == IF SepAt(u) = 0 THEN u ELSE After(u, SepAt(u) + 2)

\* the authority: that text up to its first '/'
Authority(u) ==
    LET t == AfterScheme(u)
    IN  IF FirstAt(t, 47) = 0 THEN t ELSE Before(t, FirstAt(t, 47))

\* R: that text from its first '/' onward
FromSlash(u) ==
    LET t == AfterScheme(u)
    IN  SubSeq(t, FirstAt(t, 47), Len(t))

\* the number of leading characters of s for which Test holds
LeadLen(s, Test(_)) ==
    CHOOSE n \in 0..Len(s) :
        /\ \A i \in 1..n : Test(s[i])
        /\ n = Len(s) \/ ~Test(s[n + 1])

\* the integer written at the start of t: white space, a sign, digits
WrittenInt(t) ==
    LET t1 == SubSeq(t, LeadLen(t, IsSpace) + 1, Len(t))
        signed == t1 # <<>> /\ t1[1] \in {43, 45}
        t2 == IF signed THEN Tail(t1) ELSE t1
        digits == SubSeq(t2, 1, LeadLen(t2, IsDigit))
    IN  IF t1 # <<>> /\ t1[1] = 45 THEN 0 - DecimalOf(digits) ELSE DecimalOf(digits)

(***************************************************************************)
(* C13: whenever URL::parse returns, the port is the integer written after *)
(* the first ':' of the authority when the authority contains ':' (the     *)
(* decimal value of that text when it is all digits); otherwise it is 443  *)
(* when the scheme is exactly "https" and 80 in every other case.          *)
(***************************************************************************)
C13_Port ==
    (urlPc = "parsed" /\ ~result.threw) =>
        LET a == Authority(url)
            c == FirstAt(a, 58)
        IN  IF c # 0
            THEN /\ result.port = WrittenInt(After(a, c))
                 /\ (\A i \in DOMAIN After(a, c) : IsDigit(After(a, c)[i])) =>
                        result.port = DecimalOf(After(a, c))
            ELSE result.port = IF SchemeOf(url) = S_https THEN 443 ELSE 80

\* HTTPS://h/ was parsed: no ':' in the authority, a scheme that is not
\* exactly "https", port 80
C13_Witness ==
    /\ urlPc = "parsed"
    /\ ~result.threw
    /\ SchemeOf(url) = <<72, 84, 84, 80, 83>>
    /\ FirstAt(Authority(url), 58) = 0
    /\ result.port = 80

(***************************************************************************)
(* C14 as stated: for a URL whose text after the scheme separator holds a  *)
(* '/', with R the text from the first '/' onward: when R holds '?' and a  *)
(* '#' after it, path is R before the first '?', query the text strictly   *)
(* between the first '?' and the first '#' and fragment the text after     *)
(* the first '#' (the first '#' being read either as the first of R or as  *)
(* the first after the '?'); when R holds '?' and no '#', query is the     *)
(* text after the first '?' and fragment is empty; when R holds '#' and no *)
(* '?', path is R before '#' and fragment the text after it; when neither, *)
(* path is R and query and fragment are empty.                             *)
(***************************************************************************)
\* URL::parse returned and a '/' follows the scheme separator
ParsedWithSlash ==
    /\ urlPc = "parsed"
    /\ ~result.threw
    /\ FirstAt(AfterScheme(url), 47) # 0

\* the position of the first '#' of s after position q, 0 when there is none
FirstHashAfter(s, q) ==
    IF \E i \in DOMAIN s : i > q /\ s[i] = 35
    THEN CHOOSE i \in DOMAIN s :
             i > q /\ s[i] = 35 /\ \A j \in (q + 1)..(i - 1) : s[j] # 35
    ELSE 0

C14_PathQueryFragment ==
    ParsedWithSlash =>
        LET R == FromSlash(url)
            q == FirstAt(R, 63)
            f == FirstAt(R, 35)
            g == FirstHashAfter(R, q)
        IN  /\ (q # 0 /\ g # 0) =>
                  /\ result.path = Before(R, q)
                  /\ \/ /\ result.query = SubSeq(R, q + 1, f - 1)
                        /\ result.fragment = After(R, f)
                     \/ /\ result.query = SubSeq(R, q + 1, g - 1)
                        /\ result.fragment = After(R, g)
            /\ (q # 0 /\ f = 0) =>
                  /\ result.path = Before(R, q)
                  /\ result.query = After(R, q)
                  /\ result.fragment = <<>>
            /\ (q = 0 /\ f # 0) =>
                  /\ result.path = Before(R, f)
                  /\ result.query = <<>>
                  /\ result.fragment = After(R, f)
            /\ (q = 0 /\ f = 0) =>
                  /\ result.path = R
                  /\ result.query = <<>>
                  /\ result.fragment = <<>>

(***************************************************************************)
(* C14 as amended: the case of a '?' followed by a '#' is that of the      *)
(* first '#' of R coming after the first '?'; when the first '#' of R      *)
(* comes before the first '?', path is R before the first '?', query is    *)
(* all the text after the first '?', also when a further '#' follows, and  *)
(* fragment is the text after the first '#'.  The other cases are as       *)
(* stated.                                                                 *)
(***************************************************************************)
C14_FirstMarks ==
    ParsedWithSlash =>
        LET R == FromSlash(url)
            q == FirstAt(R, 63)
            f == FirstAt(R, 35)
        IN  /\ (q # 0 /\ f > q) =>
                  /\ result.path = Before(R, q)
                  /\ result.query = SubSeq(R, q + 1, f - 1)
                  /\ result.fragment = After(R, f)
            /\ (q # 0 /\ f # 0 /\ f < q) =>
                  /\ result.path = Before(R, q)
                  /\ result.query = After(R, q)
                  /\ result.fragment = After(R, f)
            /\ (q # 0 /\ f = 0) =>
                  /\ result.path = Before(R, q)
                  /\ result.query = After(R, q)
                  /\ result.fragment = <<>>
            /\ (q = 0 /\ f # 0) =>
                  /\ result.path = Before(R, f)
                  /\ result.query = <<>>
                  /\ result.fragment = After(R, f)
            /\ (q = 0 /\ f = 0) =>
                  /\ result.path = R
                  /\ result.query = <<>>
                  /\ result.fragment = <<>>

\* h/#?# was parsed: a '#' before and a '#' after the first '?', and the
\* query runs to the end
C14_Witness ==
    /\ ParsedWithSlash
    /\ FromSlash(url) = <<47, 35, 63, 35>>
    /\ result.path = <<47, 35>>
    /\ result.query = <<35>>
    /\ result.fragment = <<63, 35>>

(***************************************************************************)
(* C15: when the text after the scheme separator (the whole input when     *)
(* there is no "://") holds no '/', URL::parse yields path "/", query ""   *)
(* and fragment "", and the whole of that text is the authority, also when *)
(* it holds '?' or '#': the host is that text, or its part before the      *)
(* first ':'.                                                              *)
(***************************************************************************)
C15_NoSlash ==
    (urlPc = "parsed" /\ ~result.threw /\ FirstAt(AfterScheme(url), 47) = 0) =>
        LET t == AfterScheme(url)
            c == FirstAt(t, 58)
        IN  /\ result.path = <<47>>
            /\ result.query = <<>>
            /\ result.fragment = <<>>
            /\ result.host = IF c = 0 THEN t ELSE Before(t, c)
            /\ c # 0 => result.port = WrittenInt(After(t, c))

\* https://h?q# was parsed: the host is h?q#, the path "/"
C15_Witness ==
    /\ urlPc = "parsed"
    /\ ~result.threw
    /\ url = <<104, 116, 116, 112, 115, 58, 47, 47, 104, 63, 113, 35>>
    /\ result.host = <<104, 63, 113, 35>>
    /\ result.path = <<47>>
    /\ result.query = <<>>

(***************************************************************************)
(* Cookie::toString, and Cookie::parse and Cookie::toString applied to     *)
(* cookie texts and cookies.                                               *)
(***************************************************************************)
\* a slip that writes HttpOnly before Secure
CookieToStringSwapped(c) ==
    c.name \o <<61>> \o c.value
    \o (IF c.domain # <<>> THEN <<59, 32, 68, 111, 109, 97, 105, 110, 61>> \o c.domain ELSE <<>>)
    \o (IF c.path # <<>> THEN <<59, 32, 80, 97, 116, 104, 61>> \o c.path ELSE <<>>)
    \o (IF c.httpOnly THEN <<59, 32, 72, 116, 116, 112, 79, 110, 108, 121>> ELSE <<>>)
    \o (IF c.secure THEN <<59, 32, 83, 101, 99, 117, 114, 101>> ELSE <<>>)
    \o (IF c.sameSite # <<>> THEN <<59, 32, 83, 97, 109, 101, 83, 105, 116, 101, 61>> \o c.sameSite ELSE <<>>)

\* Cookie::toString
CookieToString(c) ==
    c.name \o <<61>> \o c.value
    \o (IF c.domain # <<>> THEN <<59, 32, 68, 111, 109, 97, 105, 110, 61>> \o c.domain ELSE <<>>)
    \o (IF c.path # <<>> THEN <<59, 32, 80, 97, 116, 104, 61>> \o c.path ELSE <<>>)
    \o (IF c.secure THEN <<59, 32, 83, 101, 99, 117, 114, 101>> ELSE <<>>)
    \o (IF c.httpOnly THEN <<59, 32, 72, 116, 116, 112, 79, 110, 108, 121>> ELSE <<>>)
    \o (IF c.sameSite # <<>> THEN <<59, 32, 83, 97, 109, 101, 83, 105, 116, 101, 61>> \o c.sameSite ELSE <<>>)

MaxAttrs == 2

\* first segments: "a=1", " n = v ", "a", "", "a=b=c", "=v"
CookieFirsts == {<<97, 61, 49>>, <<32, 110, 32, 61, 32, 118, 32>>, <<97>>, <<>>, <<97, 61, 98, 61, 99>>, <<61, 118>>}

\* later segments
CookieSegments ==
    {<<32, 68, 111, 109, 97, 105, 110, 61, 100>>, <<80, 97, 116, 104, 61, 32, 47, 112, 32>>, <<83, 101, 99, 117, 114, 101>>, <<32, 72, 116, 116, 112, 79, 110, 108, 121, 32>>, <<83, 97, 109, 101, 83, 105, 116, 101, 61, 76, 97, 120>>, <<115, 101, 99, 117, 114, 101>>,
     <<100, 111, 109, 97, 105, 110, 61, 120>>, <<83, 101, 99, 117, 114, 101, 61, 49>>, <<>>, <<68, 111, 109, 97, 105, 110, 61>>, <<120, 80, 97, 116, 104, 61, 47>>, <<72, 84, 84, 80, 79, 78, 76, 89>>}

RECURSIVE JoinSegments(_)
\* the segments, each after a ';'
JoinSegments(segs) ==
    IF segs = <<>> THEN <<>> ELSE <<59>> \o Head(segs) \o JoinSegments(Tail(segs))

CookieTexts ==
    {first \o JoinSegments(segs) :
        first \in CookieFirsts, segs \in SeqsUpTo(CookieSegments, MaxAttrs)}

\* cookies with every field empty or not, false or true
CookieObjects ==
    [name : {<<>>, <<110>>}, value : {<<>>, <<118>>}, domain : {<<>>, <<100>>},
     path : {<<>>, <<47>>}, secure : BOOLEAN, httpOnly : BOOLEAN,
     sameSite : {<<>>, <<76, 97, 120>>}]

CookieInit ==
    /\ \/ /\ ckText \in CookieTexts
          /\ ckCookie = CookieDefault
          /\ ckPc = "text"
       \/ /\ ckText = <<>>
          /\ ckCookie \in CookieObjects
          /\ ckPc = "object"
    /\ CodecIdle /\ UrlIdle /\ RespIdle /\ ClientIdle /\ BuilderIdle /\ FormIdle
    /\ StatusIdle /\ QueryIdle

\* ckCookie = Cookie::parse(ckText), of a text given or one toString made
CookieParseStep ==
    /\ ckPc \in {"text", "printed"}
    /\ ckCookie' = CookieParse(ckText)
    /\ ckPc' = IF ckPc = "text" THEN "parsed" ELSE "reparsed"
    /\ UNCHANGED <<ckText, cookieOthers>>

\* ckText = ckCookie.toString(), of a cookie given or one parse made
CookieToStringStep ==
    /\ ckPc \in {"object", "parsed"}
    /\ ckText' = CookieToString(ckCookie)
    /\ ckPc' = IF ckPc = "object" THEN "printed" ELSE "reprinted"
    /\ UNCHANGED <<ckCookie, cookieOthers>>

CookieNext ==
    \/ CookieParseStep
    \/ CookieToStringStep

SpecCookie == CookieInit /\ [][CookieNext]_vars

(***************************************************************************)
(* C16: Cookie::parse(s) never fails and equals the reference: s is split  *)
(* on ';'; in the first segment the text before the first '=' (trimmed)    *)
(* is the name and the text after it (trimmed) the value; each later       *)
(* segment, trimmed, sets domain, path or sameSite to its suffix when it   *)
(* starts with exactly "Domain=", "Path=" or "SameSite=", sets secure or   *)
(* httpOnly when it is exactly "Secure" or "HttpOnly", and otherwise, also *)
(* in any other letter case, changes no field.                             *)
(***************************************************************************)
RECURSIVE SplitOn(_, _)
\* the segments of s between the separators c
SplitOn(s, c) ==
    IF FirstAt(s, c) = 0 THEN <<s>>
    ELSE <<Before(s, FirstAt(s, c))>> \o SplitOn(After(s, FirstAt(s, c)), c)

IsBlank(c) == c \in {32, 9, 13, 10}

\* s without its leading and trailing blanks
Trimmed(s) ==
    LET lead == LeadLen(s, IsBlank)
        rev == [i \in 1..Len(s) |-> s[Len(s) + 1 - i]]
        trail == LeadLen(rev, IsBlank)
    IN  IF lead = Len(s) THEN <<>> ELSE SubSeq(s, lead + 1, Len(s) - trail)

HasPrefix(s, pre) == Len(s) >= Len(pre) /\ SubSeq(s, 1, Len(pre)) = pre
Suffix(s, pre) == SubSeq(s, Len(pre) + 1, Len(s))

\* the segments among segs that set a field, in order of appearance
Setting(segs, pre) ==
    SelectSeq([i \in DOMAIN segs |-> Trimmed(segs[i])], LAMBDA x : HasPrefix(x, pre))

\* the value the last such segment gives, empty when there is none
LastSuffix(segs, pre) ==
    IF Setting(segs, pre) = <<>> THEN <<>>
    ELSE Suffix(Setting(segs, pre)[Len(Setting(segs, pre))], pre)

RefCookie(s) ==
    LET segs == SplitOn(s, 59)
        first == segs[1]
        later == Tail(segs)
        eq == FirstAt(first, 61)
    IN  [name |-> IF eq = 0 THEN <<>> ELSE Trimmed(Before(first, eq)),
         value |-> IF eq = 0 THEN <<>> ELSE Trimmed(After(first, eq)),
         domain |-> LastSuffix(later, <<68, 111, 109, 97, 105, 110, 61>>),
         path |-> LastSuffix(later, <<80, 97, 116, 104, 61>>),
         sameSite |-> LastSuffix(later, <<83, 97, 109, 101, 83, 105, 116, 101, 61>>),
         secure |-> \E i \in DOMAIN later : Trimmed(later[i]) = <<83, 101, 99, 117, 114, 101>>,
         httpOnly |-> \E i \in DOMAIN later : Trimmed(later[i]) = <<72, 116, 116, 112, 79, 110, 108, 121>>]

C16_ParseReference ==
    ckPc \in {"parsed", "reparsed"} => ckCookie = RefCookie(ckText)

\* " n = v ; Domain=d;secure" was parsed: n, v, domain d, and secure left
\* false by the segment in lower case
C16_Witness ==
    /\ ckPc = "parsed"
    /\ ckText = <<32, 110, 32, 61, 32, 118, 32, 59, 32, 68, 111, 109, 97, 105, 110, 61, 100, 59, 115, 101, 99, 117, 114, 101>>
    /\ ckCookie.name = <<110>>
    /\ ckCookie.value = <<118>>
    /\ ckCookie.domain = <<100>>
    /\ ~ckCookie.secure

(***************************************************************************)
(* C17: Cookie::toString() is name + '=' + value followed by               *)
(* "; Domain=<domain>", "; Path=<path>", "; Secure", "; HttpOnly",         *)
(* "; SameSite=<sameSite>" in that order, each present exactly when the    *)
(* string field is non-empty or the boolean field true, and nothing else.  *)
(***************************************************************************)
\* the parts of the text, one after the other
RefParts(c) ==
    <<c.name \o <<61>> \o c.value>>
    \o (IF c.domain = <<>> THEN <<>> ELSE <<<<68, 111, 109, 97, 105, 110, 61>> \o c.domain>>)
    \o (IF c.path = <<>> THEN <<>> ELSE <<<<80, 97, 116, 104, 61>> \o c.path>>)
    \o (IF c.secure THEN <<<<83, 101, 99, 117, 114, 101>>>> ELSE <<>>)
    \o (IF c.httpOnly THEN <<<<72, 116, 116, 112, 79, 110, 108, 121>>>> ELSE <<>>)
    \o (IF c.sameSite = <<>> THEN <<>> ELSE <<<<83, 97, 109, 101, 83, 105, 116, 101, 61>> \o c.sameSite>>)

RECURSIVE JoinWith(_, _)
JoinWith(parts, sep) ==
    IF Len(parts) = 1 THEN parts[1]
    ELSE parts[1] \o sep \o JoinWith(Tail(parts), sep)

C17_ToStringOrder ==
    ckPc \in {"printed", "reprinted"} =>
        ckText = JoinWith(RefParts(ckCookie), <<59, 32>>)

\* a cookie with every field set was printed
C17_Witness ==
    /\ ckPc = "printed"
    /\ ckCookie.secure /\ ckCookie.httpOnly
    /\ ckText = <<110, 61, 118, 59, 32, 68, 111, 109, 97, 105, 110, 61, 100, 59, 32, 80, 97, 116, 104, 61, 47, 59, 32, 83, 101, 99, 117, 114, 101, 59, 32, 72, 116, 116, 112, 79, 110, 108, 121, 59, 32, 83, 97, 109, 101, 83, 105, 116, 101, 61, 76, 97, 120>>

(***************************************************************************)
(* FormData instances made and used by one process.  The steady clock is   *)
(* read at construction; between two readings it may have advanced or not. *)
(***************************************************************************)
MaxClock == 2

FormIds == {"f1", "f2"}

\* "a", "b"
FormNames == {<<97>>, <<98>>}
\* "1", "2"
FormValues == {<<49>>, <<50>>}

\* std::chrono::steady_clock advances
Tick ==
    /\ clock < MaxClock
    /\ clock' = clock + 1
    /\ UNCHANGED <<forms, formBorn, formOut, formOthers>>

\* FormData(): instance id is constructed
Form_new ==
    /\ \E id \in FormIds \ DOMAIN forms :
          /\ forms' = MapPut(forms, id, FormDataNew(clock))
          /\ formBorn' = MapPut(formBorn, id, FormDataNew(clock).boundary)
          /\ formOut' = [op |-> "new", id |-> id]
    /\ UNCHANGED <<clock, formOthers>>

Form_addField ==
    /\ \E id \in DOMAIN forms, name \in FormNames, val \in FormValues :
          /\ forms' = [forms EXCEPT ![id] = FormAddField(@, name, val)]
          /\ formOut' = [op |-> "addField", id |-> id, name |-> name, val |-> val]
    /\ UNCHANGED <<clock, formBorn, formOthers>>

Form_getBoundary ==
    /\ \E id \in DOMAIN forms :
          formOut' = [op |-> "getBoundary", id |-> id, out |-> FormGetBoundary(forms[id])]
    /\ UNCHANGED <<clock, forms, formBorn, formOthers>>

Form_getContentType ==
    /\ \E id \in DOMAIN forms :
          formOut' = [op |-> "getContentType", id |-> id,
                      out |-> FormGetContentType(forms[id])]
    /\ UNCHANGED <<clock, forms, formBorn, formOthers>>

Form_encode ==
    /\ \E id \in DOMAIN forms :
          formOut' = [op |-> "encode", id |-> id, out |-> FormEncode(forms[id])]
    /\ UNCHANGED <<clock, forms, formBorn, formOthers>>

FormInit ==
    /\ clock = 0
    /\ forms = <<>>
    /\ formBorn = <<>>
    /\ formOut = [op |-> "none"]
    /\ CodecIdle /\ UrlIdle /\ RespIdle /\ ClientIdle /\ BuilderIdle /\ CookieIdle
    /\ StatusIdle /\ QueryIdle

FormNext ==
    \/ Tick
    \/ Form_new
    \/ Form_addField
    \/ Form_getBoundary
    \/ Form_getContentType
    \/ Form_encode

SpecForm == FormInit /\ [][FormNext]_vars

(***************************************************************************)
(* C18: after any sequence of addField calls, encode() emits one part per  *)
(* distinct field name, a repeated name keeping only the value of its last *)
(* addField, in ascending order of the names, each part being              *)
(* "--" boundary CRLF, 'Content-Disposition: form-data; name="<name>"'     *)
(* CRLF CRLF, value CRLF, and ends with one terminal "--" boundary "--"    *)
(* CRLF; with no field the output is the terminal line alone.              *)
(***************************************************************************)
\* the names of fs in ascending order: byte by byte, a prefix first
Ascending(names) ==
    CHOOSE q \in [1..Cardinality(names) -> names] :
        /\ \A n \in names : \E i \in DOMAIN q : q[i] = n
        /\ \A i, j \in DOMAIN q : i < j => LexLess(q[i], q[j])

RefPart(token, name, val) ==
    <<45, 45>> \o token \o <<13, 10>>
    \o <<67, 111, 110, 116, 101, 110, 116, 45, 68, 105, 115, 112, 111, 115, 105, 116, 105, 111, 110, 58, 32, 102, 111, 114, 109, 45, 100, 97, 116, 97, 59, 32, 110, 97, 109, 101, 61, 34>> \o name \o <<34, 13, 10, 13, 10>>
    \o val \o <<13, 10>>

RECURSIVE Concat(_)
Concat(ss) == IF ss = <<>> THEN <<>> ELSE Head(ss) \o Concat(Tail(ss))

RefEncode(fd) ==
    LET names == Ascending(DOMAIN fd.fields)
    IN  Concat([i \in DOMAIN names |-> RefPart(fd.boundary, names[i], fd.fields[names[i]])])
        \o <<45, 45>> \o fd.boundary \o <<45, 45>> \o <<13, 10>>

\* an addField step makes the name's value the one given and leaves the
\* other names as they were
AddFieldStep ==
    formOut'.op = "addField" =>
        LET id == formOut'.id
        IN  /\ DOMAIN forms'[id].fields = DOMAIN forms[id].fields \cup {formOut'.name}
            /\ forms'[id].fields[formOut'.name] = formOut'.val
            /\ \A n \in DOMAIN forms[id].fields \ {formOut'.name} :
                   forms'[id].fields[n] = forms[id].fields[n]

\* an encode step returns the parts of the fields as they are
EncodeStep18 ==
    formOut'.op = "encode" => formOut'.out = RefEncode(forms[formOut'.id])

C18_EncodeParts == [][AddFieldStep /\ EncodeStep18]_vars

\* addField("b", "1"), addField("a", "1"), addField("a", "2") and encode():
\* the part of a with 2, then the part of b
C18_Witness ==
    /\ formOut.op = "encode"
    /\ formOut.id = "f1"
    /\ forms["f1"].fields = (<<97>> :> <<50>>) @@ (<<98>> :> <<49>>)
    /\ formOut.out =
           RefPart(formBorn["f1"], <<97>>, <<50>>) \o RefPart(formBorn["f1"], <<98>>, <<49>>)
           \o <<45, 45>> \o formBorn["f1"] \o <<45, 45>> \o <<13, 10>>

(***************************************************************************)
(* C19: the boundary of a FormData is fixed at construction: after any     *)
(* sequence of addField, encode, getContentType and getBoundary calls,     *)
(* getBoundary() returns the token chosen at construction,                 *)
(* getContentType() is "multipart/form-data; boundary=" and that token,    *)
(* and every delimiter line of encode() uses that token.                   *)
(***************************************************************************)
\* the lines of an encode() output that start with "--"
DelimiterLines(out) ==
    SelectSeq(LinesOf(out), LAMBDA l : Len(l) >= 2 /\ l[1] = 45 /\ l[2] = 45)

C19_BoundaryFixed ==
    \A id \in DOMAIN forms :
        LET token == formBorn[id]
            lines == DelimiterLines(FormEncode(forms[id]))
        IN  /\ FormGetBoundary(forms[id]) = token
            /\ FormGetContentType(forms[id]) = <<109, 117, 108, 116, 105, 112, 97, 114, 116, 47, 102, 111, 114, 109, 45, 100, 97, 116, 97, 59, 32, 98, 111, 117, 110, 100, 97, 114, 121, 61>> \o token
            /\ Len(lines) = Cardinality(DOMAIN forms[id].fields) + 1
            /\ \A i \in 1..(Len(lines) - 1) : lines[i] = <<45, 45>> \o token
            /\ lines[Len(lines)] = <<45, 45>> \o token \o <<45, 45>>
            /\ (formOut.op = "getBoundary" /\ formOut.id = id) => formOut.out = token

\* an instance made at clock reading 1 got fields and the clock went on;
\* getBoundary() still returns ----FastHTTPBoundary1
C19_Witness ==
    /\ formOut.op = "getBoundary"
    /\ formOut.out = <<45, 45, 45, 45, 70, 97, 115, 116, 72, 84, 84, 80, 66, 111, 117, 110, 100, 97, 114, 121, 49>>
    /\ DOMAIN forms[formOut.id].fields # {}
    /\ clock = 2

(***************************************************************************)
(* C20: any two FormData instances made in one process have different     *)
(* boundary tokens, the clock being only known not to go back.             *)
(***************************************************************************)
C20_DistinctBoundaries ==
    \A i, j \in DOMAIN forms :
        i # j => FormGetBoundary(forms[i]) # FormGetBoundary(forms[j])

(***************************************************************************)
(* The status classification of an HttpResponse.  statusCode_ is an int;   *)
(* it is given at construction or by setStatusCode and only compared.      *)
(***************************************************************************)
S_Informational == <<73, 110, 102, 111, 114, 109, 97, 116, 105, 111, 110, 97, 108>>
S_Success == <<83, 117, 99, 99, 101, 115, 115>>
S_Redirect == <<82, 101, 100, 105, 114, 101, 99, 116>>
S_ClientError == <<67, 108, 105, 101, 110, 116, 32, 69, 114, 114, 111, 114>>
S_ServerError == <<83, 101, 114, 118, 101, 114, 32, 69, 114, 114, 111, 114>>
S_Unknown == <<85, 110, 107, 110, 111, 119, 110>>

\* HttpResponse::isSuccess
IsSuccess(code) == code >= 200 /\ code < 300

\* HttpResponse::isRedirect
IsRedirect(code) == code >= 300 /\ code < 400

\* HttpResponse::isClientError
IsClientError(code) == code >= 400 /\ code < 500

\* a slip that takes 600 for a server error
IsServerErrorInclusive(code) == code >= 500 /\ code <= 600

\* HttpResponse::isServerError
IsServerError(code) == code >= 500 /\ code < 600

\* HttpResponse::isInformational
IsInformational(code) == code >= 100 /\ code < 200

\* HttpResponse::getStatusCategory
GetStatusCategory(code) ==
    IF IsInformational(code) THEN S_Informational
    ELSE IF IsSuccess(code) THEN S_Success
    ELSE IF IsRedirect(code) THEN S_Redirect
    ELSE IF IsClientError(code) THEN S_ClientError
    ELSE IF IsServerError(code) THEN S_ServerError
    ELSE S_Unknown

\* the codes given: the codes at and next to each end of the five classes,
\* one inside each class, and codes far from them down to the least and up
\* to the greatest int
StatusCodes ==
    UNION {{b - 1, b, b + 1, b + 50} : b \in {100, 200, 300, 400, 500, 600}}
        \cup {-IntMax - 1, -200, -100, -1, 0, 1, 1000, IntMax}

\* HttpResponse::setStatusCode
Status_setStatusCode ==
    /\ \E code \in StatusCodes : statusCode_' = code
    /\ UNCHANGED <<statusOut, statusOthers>>

\* HttpResponse::getStatusCategory
Status_getStatusCategory ==
    /\ statusOut' = [op |-> "getStatusCategory", code |-> statusCode_,
                      ret |-> GetStatusCategory(statusCode_)]
    /\ UNCHANGED <<statusCode_, statusOthers>>

\* HttpResponse::isInformational
Status_isInformational ==
    /\ statusOut' = [op |-> "isInformational", code |-> statusCode_,
                      ret |-> IsInformational(statusCode_)]
    /\ UNCHANGED <<statusCode_, statusOthers>>

\* HttpResponse::isSuccess
Status_isSuccess ==
    /\ statusOut' = [op |-> "isSuccess", code |-> statusCode_,
                      ret |-> IsSuccess(statusCode_)]
    /\ UNCHANGED <<statusCode_, statusOthers>>

\* HttpResponse::isRedirect
Status_isRedirect ==
    /\ statusOut' = [op |-> "isRedirect", code |-> statusCode_,
                      ret |-> IsRedirect(statusCode_)]
    /\ UNCHANGED <<statusCode_, statusOthers>>

\* HttpResponse::isClientError
Status_isClientError ==
    /\ statusOut' = [op |-> "isClientError", code |-> statusCode_,
                      ret |-> IsClientError(statusCode_)]
    /\ UNCHANGED <<statusCode_, statusOthers>>

\* HttpResponse::isServerError
Status_isServerError ==
    /\ statusOut' = [op |-> "isServerError", code |-> statusCode_,
                      ret |-> IsServerError(statusCode_)]
    /\ UNCHANGED <<statusCode_, statusOthers>>

\* a response made with HttpResponse() has code 0, one made with
\* HttpResponse(statusCode, statusMessage) the code given
StatusInit ==
    /\ statusCode_ \in StatusCodes
    /\ statusOut = [op |-> "none"]
    /\ CodecIdle /\ UrlIdle /\ RespIdle /\ ClientIdle /\ BuilderIdle /\ CookieIdle
    /\ FormIdle /\ QueryIdle

StatusNext ==
    \/ Status_setStatusCode
    \/ Status_getStatusCategory
    \/ Status_isInformational
    \/ Status_isSuccess
    \/ Status_isRedirect
    \/ Status_isClientError
    \/ Status_isServerError

SpecStatus == StatusInit /\ [][StatusNext]_vars

\* the category of a code by its hundreds
CategoryOf(code) ==
    LET h == IF code >= 0 THEN code \div 100 ELSE 0
    IN  CASE h = 1 -> S_Informational
          [] h = 2 -> S_Success
          [] h = 3 -> S_Redirect
          [] h = 4 -> S_ClientError
          [] h = 5 -> S_ServerError
          [] OTHER -> S_Unknown

\* the predicates that hold of a code, each named by its category
FlagsOf(code) ==
    {c \in {S_Informational, S_Success, S_Redirect, S_ClientError, S_ServerError} :
        \/ c = S_Informational /\ IsInformational(code)
        \/ c = S_Success /\ IsSuccess(code)
        \/ c = S_Redirect /\ IsRedirect(code)
        \/ c = S_ClientError /\ IsClientError(code)
        \/ c = S_ServerError /\ IsServerError(code)}

\* what the query made last has to return for the code it saw
AnswerOf(op, code) ==
    CASE op = "getStatusCategory" -> CategoryOf(code)
      [] op = "isInformational" -> CategoryOf(code) = S_Informational
      [] op = "isSuccess" -> CategoryOf(code) = S_Success
      [] op = "isRedirect" -> CategoryOf(code) = S_Redirect
      [] op = "isClientError" -> CategoryOf(code) = S_ClientError
      [] op = "isServerError" -> CategoryOf(code) = S_ServerError

\* C21: for every int status code, getStatusCategory() is 'Informational' on
\* [100,200), 'Success' on [200,300), 'Redirect' on [300,400), 'Client
\* Error' on [400,500), 'Server Error' on [500,600) and 'Unknown' on every
\* other code (0, negative codes and codes from 600 on included); at most
\* one of the five is...() predicates is true, and it is the one of the
\* category; every query made returned that answer.
C21_OneCategory ==
    /\ GetStatusCategory(statusCode_) = CategoryOf(statusCode_)
    /\ Cardinality(FlagsOf(statusCode_)) <= 1
    /\ FlagsOf(statusCode_) = {CategoryOf(statusCode_)} \ {S_Unknown}
    /\ statusOut.op # "none" =>
           statusOut.ret = AnswerOf(statusOut.op, statusOut.code)

\* 600 was asked for its category and is in none
C21_Witness ==
    /\ statusOut.op = "getStatusCategory"
    /\ statusOut.code = 600
    /\ statusOut.ret = S_Unknown
    /\ statusCode_ = -1
    /\ FlagsOf(statusCode_) = {}

(***************************************************************************)
(* UrlEncoder::buildQueryString applied to a std::map the caller filled    *)
(* with m[k] = v, in any order of the keys.                                *)
(***************************************************************************)
\* "", "a", "b", "a=", "&", and a key of one byte above 0x7F
QueryKeys == {<<>>, <<97>>, <<98>>, <<97, 61>>, <<38>>, <<200>>}
\* "", "1", "2", " &="
QueryValues == {<<>>, <<49>>, <<50>>, <<32, 38, 61>>}

\* params[key] = val on the caller's side
Query_put ==
    /\ \E key \in QueryKeys, val \in QueryValues :
          /\ key \in DOMAIN qsParams \/ Cardinality(DOMAIN qsParams) < MaxParams
          /\ qsParams' = MapPut(qsParams, key, val)
    /\ qsPc' = "filled"
    /\ UNCHANGED <<qsOut, queryOthers>>

\* UrlEncoder::buildQueryString(params)
Query_buildQueryString ==
    /\ qsOut' = BuildQueryString(qsParams)
    /\ qsPc' = "built"
    /\ UNCHANGED <<qsParams, queryOthers>>

\* an empty std::map
QueryInit ==
    /\ qsParams = <<>>
    /\ qsOut = <<>>
    /\ qsPc = "filled"
    /\ CodecIdle /\ UrlIdle /\ RespIdle /\ ClientIdle /\ BuilderIdle /\ CookieIdle
    /\ FormIdle /\ StatusIdle

QueryNext ==
    \/ Query_put
    \/ Query_buildQueryString

SpecQuery == QueryInit /\ [][QueryNext]_vars

\* C22: buildQueryString(m) is encode(k) '=' encode(v) for the entries of m in
\* ascending key order, joined by '&', with no '&' at either end and the
\* empty string for the empty mapping, whatever the order in which m was
\* filled; it holds exactly |m| '=' characters and max(|m| - 1, 0) '&'
\* characters.
C22_QueryString ==
    qsPc = "built" =>
        LET keys == Ascending(DOMAIN qsParams)
            n == Cardinality(DOMAIN qsParams)
            pairs == [i \in 1..n |->
                         Encode(keys[i]) \o <<61>> \o Encode(qsParams[keys[i]])]
        IN  /\ qsOut = IF n = 0 THEN <<>> ELSE JoinWith(pairs, <<38>>)
            /\ Count(qsOut, 61) = n
            /\ Count(qsOut, 38) = IF n = 0 THEN 0 ELSE n - 1

\* a mapping of two entries, one with the key "&" and a value holding '&'
\* and '=', was turned into a query string
C22_Witness ==
    /\ qsPc = "built"
    /\ qsParams = (<<38>> :> <<32, 38, 61>>) @@ (<<200>> :> <<>>)
    /\ qsOut = <<37, 50, 54, 61, 37, 50, 48, 37, 50, 54, 37, 51, 68, 38, 37, 67, 56, 61>>

(***************************************************************************)
(* Basic and Bearer authentication on an HttpRequest and on a              *)
(* RequestBuilder.  Both classes have their own base64Encode, with the     *)
(* same text.  Its accumulator val is a 32-bit int that takes in every     *)
(* byte of the input and is never masked: it is kept here as its 32 bits,  *)
(* the upper and the lower 16, so that the bits shifted out at the top are *)
(* lost as they are in the int.                                            *)
(***************************************************************************)
S_Base64Chars == <<65, 66, 67, 68, 69, 70, 71, 72, 73, 74, 75, 76, 77, 78, 79, 80, 81, 82, 83, 84, 85, 86, 87, 88, 89, 90, 97, 98, 99, 100, 101, 102, 103, 104, 105, 106, 107, 108, 109, 110, 111, 112, 113, 114, 115, 116, 117, 118, 119, 120, 121, 122, 48, 49, 50, 51, 52, 53, 54, 55, 56, 57, 43, 47>>
S_Authorization == <<65, 117, 116, 104, 111, 114, 105, 122, 97, 116, 105, 111, 110>>
S_Basic == <<66, 97, 115, 105, 99, 32>>
S_Bearer == <<66, 101, 97, 114, 101, 114, 32>>

\* (val << 8) + c on the 32 bits of val
ShiftIn(val, c) ==
    [hi |-> (val.hi * 256 + val.lo \div 256) % 65536,
     lo |-> (val.lo * 256 + c) % 65536]

\* (val >> n) & 0x3F for 0 <= n <= 18: bits n .. n + 5 of val
SixBits(val, n) == (((val.hi % 256) * 65536 + val.lo) \div (2 ^ n)) % 64

RECURSIVE Base64Emit(_, _, _)
\* while (valb >= 0) { encoded.push_back(chars[(val >> valb) & 0x3F]); valb -= 6; }
Base64Emit(val, valb, enc) ==
    IF valb >= 0
    THEN Base64Emit(val, valb - 6, Append(enc, S_Base64Chars[SixBits(val, valb) + 1]))
    ELSE [enc |-> enc, valb |-> valb]

RECURSIVE Base64Loop(_, _, _, _)
\* for (unsigned char c : input) from the byte at the head of input
Base64Loop(input, val, valb, enc) ==
    IF input = <<>> THEN [val |-> val, valb |-> valb, enc |-> enc]
    ELSE LET val1 == ShiftIn(val, Head(input))
             out == Base64Emit(val1, valb + 8, enc)
         IN  Base64Loop(Tail(input), val1, out.valb, out.enc)

RECURSIVE Base64Pad(_)
\* while (encoded.size() % 4) encoded.push_back('=')
Base64Pad(enc) == IF Len(enc) % 4 # 0 THEN Base64Pad(Append(enc, 61)) ELSE enc

\* a slip that leaves the padding out
Base64EncodeUnpadded(input) ==
    LET l == Base64Loop(input, [hi |-> 0, lo |-> 0], -6, <<>>)
    IN  IF l.valb > -6
        THEN Append(l.enc, S_Base64Chars[SixBits(ShiftIn(l.val, 0), l.valb + 8) + 1])
        ELSE l.enc

\* HttpRequest::base64Encode
Base64Encode(input) ==
    LET l == Base64Loop(input, [hi |-> 0, lo |-> 0], -6, <<>>)
        last == IF l.valb > -6
                THEN Append(l.enc, S_Base64Chars[SixBits(ShiftIn(l.val, 0), l.valb + 8) + 1])
                ELSE l.enc
    IN  Base64Pad(last)

\* RequestBuilder::base64Encode
RbBase64Encode(input) ==
    LET l == Base64Loop(input, [hi |-> 0, lo |-> 0], -6, <<>>)
        last == IF l.valb > -6
                THEN Append(l.enc, S_Base64Chars[SixBits(ShiftIn(l.val, 0), l.valb + 8) + 1])
                ELSE l.enc
    IN  Base64Pad(last)

\* HttpRequest::setBasicAuth
ReqSetBasicAuth(r, username, password) ==
    LET credentials == username \o <<58>> \o password
    IN  ReqSetHeader(r, S_Authorization, S_Basic \o Base64Encode(credentials))

\* HttpRequest::setBearerToken
ReqSetBearerToken(r, token) == ReqSetHeader(r, S_Authorization, S_Bearer \o token)

\* RequestBuilder::setBasicAuth
RbSetBasicAuth(rb, username, password) ==
    LET credentials == username \o <<58>> \o password
    IN  RbAddHeader(rb, S_Authorization, S_Basic \o RbBase64Encode(credentials))

\* RequestBuilder::setBearerToken
RbSetBearerToken(rb, token) == RbAddHeader(rb, S_Authorization, S_Bearer \o token)

\* "", "a", "ab", "abc", two bytes 0xFF, "a:"
AuthUsers == {<<>>, <<97>>, <<97, 98>>, <<97, 98, 99>>, <<255, 255>>, <<97, 58>>}
\* "", "p", "pw", "pwd?", byte 0xFF
AuthPasswords == {<<>>, <<112>>, <<112, 119>>, <<112, 119, 100, 63>>, <<255>>}
\* "", "t", "t k="
AuthTokens == {<<>>, <<116>>, <<116, 32, 107, 61>>}

Builder_setBasicAuth ==
    /\ \E username \in AuthUsers, password \in AuthPasswords :
          /\ builder' = RbSetBasicAuth(builder, username, password)
          /\ rbOp' = [op |-> "setBasicAuth", arg |-> <<username, password>>]
    /\ UNCHANGED <<built, rbTrace, builderOthers>>

Builder_setBearerToken ==
    /\ \E token \in AuthTokens :
          /\ builder' = RbSetBearerToken(builder, token)
          /\ rbOp' = [op |-> "setBearerToken", arg |-> token]
    /\ UNCHANGED <<built, rbTrace, builderOthers>>

\* HttpRequest::setBasicAuth on the request build() returned
Request_setBasicAuth ==
    /\ built # NoRequest
    /\ \E username \in AuthUsers, password \in AuthPasswords :
          /\ built' = ReqSetBasicAuth(built, username, password)
          /\ rbOp' = [op |-> "request.setBasicAuth", arg |-> <<username, password>>]
    /\ UNCHANGED <<builder, rbTrace, builderOthers>>

\* HttpRequest::setBearerToken on the request build() returned
Request_setBearerToken ==
    /\ built # NoRequest
    /\ \E token \in AuthTokens :
          /\ built' = ReqSetBearerToken(built, token)
          /\ rbOp' = [op |-> "request.setBearerToken", arg |-> token]
    /\ UNCHANGED <<builder, rbTrace, builderOthers>>

\* a builder and the request it returned, on which the credentials are set
BuilderAuthNext ==
    \/ Builder_setBasicAuth
    \/ Builder_setBearerToken
    \/ Builder_build
    \/ Request_setBasicAuth
    \/ Request_setBearerToken

SpecBuilderAuth == BuilderInit /\ [][BuilderAuthNext]_vars

\* character i of the base64 alphabet of RFC 4648, 0 <= i <= 63
Alphabet(i) ==
    IF i < 26 THEN 65 + i
    ELSE IF i < 52 THEN 97 + (i - 26)
    ELSE IF i < 62 THEN 48 + (i - 52)
    ELSE IF i = 62 THEN 43 ELSE 47

RECURSIVE RefBase64(_)
\* RFC 4648 base64: each group of three bytes as four characters, a last
\* group of one or two bytes filled up with '='
RefBase64(s) ==
    IF s = <<>> THEN <<>>
    ELSE LET k == Min(3, Len(s))
             b1 == s[1]
             b2 == IF k >= 2 THEN s[2] ELSE 0
             b3 == IF k = 3 THEN s[3] ELSE 0
         IN  <<Alphabet(b1 \div 4), Alphabet((b1 % 4) * 16 + b2 \div 16)>>
             \o (IF k >= 2 THEN <<Alphabet((b2 % 16) * 4 + b3 \div 64)>> ELSE <<61>>)
             \o (IF k = 3 THEN <<Alphabet(b3 % 64)>> ELSE <<61>>)
             \o RefBase64(SubSeq(s, k + 1, Len(s)))

\* the Authorization header the call made last has to leave
AuthOf(op, arg) ==
    IF op \in {"setBasicAuth", "request.setBasicAuth"}
    THEN S_Basic \o RefBase64(arg[1] \o <<58>> \o arg[2])
    ELSE S_Bearer \o arg

\* C23: setBasicAuth(user, pass) sets Authorization to "Basic " and the
\* RFC 4648 base64 text, padded with '=', of user ':' pass, whatever the
\* length of that text modulo 3; HttpRequest::setBasicAuth and
\* RequestBuilder::setBasicAuth give the same value for the same arguments;
\* setBearerToken(t) sets Authorization to "Bearer " and t.
C23_Authorization ==
    /\ rbOp.op \in {"setBasicAuth", "setBearerToken"} =>
           /\ S_Authorization \in DOMAIN builder.headers_
           /\ builder.headers_[S_Authorization] = AuthOf(rbOp.op, rbOp.arg)
    /\ rbOp.op \in {"request.setBasicAuth", "request.setBearerToken"} =>
           /\ S_Authorization \in DOMAIN built.headers
           /\ built.headers[S_Authorization] = AuthOf(rbOp.op, rbOp.arg)
    /\ rbOp.op \in {"setBasicAuth", "request.setBasicAuth"} =>
           ReqSetBasicAuth(NewRequest("GET", <<>>), rbOp.arg[1], rbOp.arg[2]).headers
               = RbSetBasicAuth(RbNew("GET", <<>>), rbOp.arg[1], rbOp.arg[2]).headers_

\* the request was given "abc" and "pwd?": eight bytes of credentials, more
\* than the int of base64Encode holds, with two bytes in the last group
C23_Witness ==
    /\ rbOp = [op |-> "request.setBasicAuth", arg |-> <<<<97, 98, 99>>, <<112, 119, 100, 63>>>>]
    /\ built.headers[S_Authorization] = <<66, 97, 115, 105, 99, 32, 89, 87, 74, 106, 79, 110, 66, 51, 90, 68, 56, 61>>
    /\ S_Authorization \in DOMAIN builder.headers_
    /\ builder.headers_[S_Authorization] = <<66, 97, 115, 105, 99, 32, 47, 47, 56, 54, 47, 119, 61, 61>>

(***************************************************************************)
(* The format of UrlEncoder::encode.                                       *)
(***************************************************************************)
\* A-Z, a-z, 0-9, '-', '_', '.', '~'
UnreservedBytes == (65..90) \cup (97..122) \cup (48..57) \cup {45, 95, 46, 126}

S_HexUpper == <<48, 49, 50, 51, 52, 53, 54, 55, 56, 57, 65, 66, 67, 68, 69, 70>>

\* what a byte has to be written as
Written(b) ==
    IF b \in UnreservedBytes THEN <<b>>
    ELSE <<37, S_HexUpper[(b \div 16) + 1], S_HexUpper[(b % 16) + 1]>>

\* C24: encode(s) is, byte by byte, the byte itself when it is in
\* [A-Za-z0-9] or one of '-', '_', '.', '~', and otherwise '%' and exactly
\* two uppercase hexadecimal digits of the byte's unsigned value, padded with
\* a zero, bytes from 0x80 on included; the output holds no character
\* outside the unreserved set, '%' and 0-9A-F.
C24_EncodeFormat ==
    codecPc \in {"encoded", "roundtrip"} =>
        /\ encoded = Concat([i \in DOMAIN value |-> Written(value[i])])
        /\ \A i \in DOMAIN encoded :
              encoded[i] \in UnreservedBytes \cup {37} \cup (48..57) \cup (65..70)

\* '-', NUL and 0xFF were encoded: one byte kept, one escape padded with a
\* zero, one of a byte above 0x7F
C24_Witness ==
    /\ codecPc = "encoded"
    /\ value = <<45, 0, 255>>
    /\ encoded = <<45, 37, 48, 48, 37, 70, 70>>

(***************************************************************************)
(* C25: when the path part R of a URL holds both '?' and '#' and its first *)
(* '#' is before its first '?', URL::parse sets path to R before the first *)
(* '?' and query to all the text after that '?' up to the end of the       *)
(* input: the count fragmentPos - queryPos - 1, computed in size_t, cuts   *)
(* nothing off the query and puts nothing else into it.                    *)
(***************************************************************************)
C25_HashBeforeQuery ==
    ParsedWithSlash =>
        LET R == FromSlash(url)
            q == FirstAt(R, 63)
            f == FirstAt(R, 35)
        IN  (f # 0 /\ q # 0 /\ f < q) =>
                /\ result.path = Before(R, q)
                /\ Len(result.query) = Len(R) - q
                /\ \A i \in 1..Len(result.query) : result.query[i] = url[Len(url) - Len(result.query) + i]

\* a URL with the path part /p#f?q was parsed
C25_Witness ==
    /\ ParsedWithSlash
    /\ FromSlash(url) = <<47, 112, 35, 102, 63, 113>>
    /\ result.path = <<47, 112, 35, 102>>
    /\ result.query = <<113>>

(***************************************************************************)
(* A builder on which only the body setters are called, and build().       *)
(***************************************************************************)
BuilderBuildNext ==
    \/ Builder_setBody
    \/ Builder_setJsonBody
    \/ Builder_setFormData
    \/ Builder_setFormUrlEncoded
    \/ Builder_build

SpecBuilderBuild == BuilderInit /\ [][BuilderBuildNext]_vars

\* C26: after any sequence of body-setter calls (setBody, setJsonBody,
\* setFormUrlEncoded, setFormData, with empty and non-empty bodies in any
\* order), the request build() returns has no Content-Length header or has
\* one that is the decimal length of its body.
C26_LengthMatchesBody ==
    built # NoRequest =>
        \/ S_ContentLength \notin DOMAIN built.headers
        \/ built.headers[S_ContentLength] = StdToString(Len(built.body))

(***************************************************************************)
(* A builder and the request its build() returned by value: calls go on    *)
(* on the builder after build(), and the request is changed by its holder. *)
(***************************************************************************)
\* RequestBuilder::setTimeout
RbSetTimeout(rb, timeoutMs) == [rb EXCEPT !.timeout_ = timeoutMs]

Builder_setTimeout ==
    /\ \E timeoutMs \in ClientTimeouts :
          /\ builder' = RbSetTimeout(builder, timeoutMs)
          /\ rbOp' = [op |-> "setTimeout", arg |-> timeoutMs]
    /\ UNCHANGED <<built, rbTrace, builderOthers>>

BuilderSnapshotNext ==
    \/ Builder_setBody
    \/ Builder_setTimeout
    \/ Builder_setBearerToken
    \/ Builder_build
    \/ Request_setBearerToken

SpecBuilderSnapshot == BuilderInit /\ [][BuilderSnapshotNext]_vars

\* the request r holds what the builder rb holds (a builder without cookies)
SnapshotOf(r, rb) ==
    /\ r.method = rb.method_
    /\ r.url = rb.url_
    /\ r.headers = rb.headers_
    /\ r.body = rb.body_
    /\ r.timeout = rb.timeout_

\* a step of the builder and of the request it returned
SnapshotStep ==
    \* build() leaves the builder as it is and returns what it holds
    /\ rbOp'.op = "build" => builder' = builder /\ SnapshotOf(built', builder)
    \* a build() called right after a build() returns an equal request
    /\ rbOp.op = "build" =>
           LET again == RbBuild(builder)
           IN  /\ again.method = built.method
               /\ again.url = built.url
               /\ again.headers = built.headers
               /\ again.body = built.body
               /\ again.timeout = built.timeout
    \* a call on the builder leaves the request returned before as it is
    /\ rbOp'.op \in {"setBody", "setTimeout", "setBearerToken"} => built' = built
    \* a change of the request leaves the builder as it is
    /\ rbOp'.op = "request.setBearerToken" => builder' = builder

\* C27: build() leaves the builder's state unchanged and returns an
\* independent snapshot: two consecutive build() calls return requests equal
\* in method, URL, headers, body and timeout; a call on the builder after a
\* build() does not change the request already returned, and a change of
\* that request does not reach the builder.
C27_Snapshot == [][SnapshotStep]_vars

\* after build(), the request was given a token and the builder a body and a
\* timeout: each holds its own
C27_Witness ==
    /\ rbOp.op = "setTimeout"
    /\ built # NoRequest
    /\ built.body = <<>>
    /\ built.timeout = DefaultTimeoutMs
    /\ built.headers = (S_Authorization :> (S_Bearer \o <<116>>))
    /\ builder.body_ = <<100>>
    /\ builder.timeout_ = 5000
    /\ S_Authorization \notin DOMAIN builder.headers_

(***************************************************************************)
(* The URL of a built request, read again by URL::parse as the client's    *)
(* execute does.                                                           *)
(***************************************************************************)
\* text p occurs in text s
Contains(s, p) ==
    \E i \in 0..(Len(s) - Len(p)) : SubSeq(s, i + 1, i + Len(p)) = p

\* C28: for every base URL without a fragment, with or without a path after
\* the host, and every key k and value v, the request built after
\* addQueryParam(k, v) has a URL for which URL::parse yields the host and the
\* port it yields for the base URL, and a query that contains
\* encode(k) '=' encode(v).
C28_QueryParsedBack ==
    (/\ rbOp.op = "build"
     /\ rbTrace.params # <<>>
     /\ Count(rbTrace.url, 35) = 0) =>
        LET base == UrlParse(rbTrace.url)
            parsed == UrlParse(built.url)
        IN  /\ ~parsed.threw
            /\ parsed.host = base.host
            /\ parsed.port = base.port
            /\ \A i \in DOMAIN rbTrace.params :
                  Contains(parsed.query,
                           Encode(rbTrace.params[i][1]) \o <<61>>
                               \o Encode(rbTrace.params[i][2]))

(***************************************************************************)
(* C29: every cookie attached to a request reaches the transport: when     *)
(* execute is given a request to which cookies were added through          *)
(* HttpRequest::addCookie, the headers handed to the transport include a   *)
(* Cookie header that lists them as name=value in insertion order, as for  *)
(* cookies added through RequestBuilder::addCookie.                        *)
(***************************************************************************)
C29_CookiesSent ==
    (SendReached /\ executeCalls[1].cookies # <<>>) =>
        <<S_Cookie, JoinPairs(executeCalls[1].cookies)>> \in SentHeaders

\* the second half of C29, on the builder: the request build() returns
\* reports through getCookies() the cookies added to the builder
C29_BuiltCookies == rbOp.op = "build" => built.cookies = builder.cookies_

====
